---------------------------- MODULE Spec2Model ----------------------------
(***************************************************************************)
(* All-in-or-Fold poker solver: the GameState state machine, the hand     *)
(* evaluator it calls at showdown, and the MCCFR regret node.             *)
(*                                                                         *)
(* Money is counted in whole units of 1/120 chip, so that the blinds      *)
(* 0.4 and 1.0, stacks given in half big blinds, and the equal split of a  *)
(* side pot among up to four winners are all exact integers.  The model    *)
(* therefore computes with exact arithmetic where the program computes     *)
(* with doubles.                                                           *)
(***************************************************************************)
EXTENDS Integers, Sequences, FiniteSets, TLC

\* ------------------------------------------------------------------------
\* Program constants (GameConfig)
\* ------------------------------------------------------------------------
NUM_PLAYERS == 4
HOLE_CARDS_PER_PLAYER == 2
COMMUNITY_CARDS == 5
DECK_SIZE == 52
STARTING_STACK_BB == 8

\* One chip in model units: 10 tenths of a chip, each tenth 12 units.
Chip == 10 * 12

Seats == 0 .. (NUM_PLAYERS - 1)

\* ------------------------------------------------------------------------
\* Bounds of the model
\* ------------------------------------------------------------------------
\* number of deck orders (shuffles) the hands are played with
MaxSeed == 3

\* ------------------------------------------------------------------------
\* Generic helpers on sequences and sets
\* ------------------------------------------------------------------------
Max(S) == CHOOSE x \in S : \A y \in S : y <= x

Min(S) == CHOOSE x \in S : \A y \in S : x <= y

RECURSIVE SumSeq(_)
SumSeq(s) == IF s = <<>> THEN 0 ELSE Head(s) + SumSeq(Tail(s))

RECURSIVE SumFn(_, _)
SumFn(f, S) ==
    IF S = {} THEN 0
    ELSE LET x == CHOOSE y \in S : TRUE IN f[x] + SumFn(f, S \ {x})

\* std::sort(v.rbegin(), v.rend()) on a vector of ints: descending order
RECURSIVE SortDesc(_)
SortDesc(s) ==
    IF s = <<>> THEN <<>>
    ELSE LET m == Max({s[i] : i \in 1 .. Len(s)})
             k == CHOOSE i \in 1 .. Len(s) : s[i] = m
         IN <<m>> \o SortDesc(SubSeq(s, 1, k - 1) \o SubSeq(s, k + 1, Len(s)))

\* the members of a std::set<int>, iterated in increasing order
RECURSIVE SetToSeq(_)
SetToSeq(S) ==
    IF S = {} THEN <<>>
    ELSE LET m == Min(S) IN <<m>> \o SetToSeq(S \ {m})

\* std::vector::resize(n) on a vector of ints (new elements are 0)
Resize(s, n) == [i \in 1 .. n |-> IF i <= Len(s) THEN s[i] ELSE 0]

\* ------------------------------------------------------------------------
\* Card and Deck
\* ------------------------------------------------------------------------
Ranks == <<"2", "3", "4", "5", "6", "7", "8", "9", "10", "J", "Q", "K", "A">>

Suits == <<"h", "d", "c", "s">>

RANK_VALUES ==
    [r \in {Ranks[i] : i \in 1 .. Len(Ranks)} |->
        CHOOSE i \in 2 .. 14 : Ranks[i - 1] = r]

Card(rank, suit) == [rank |-> rank, suit |-> suit]

getRankValue(card) == RANK_VALUES[card.rank]

\* ranks outer loop, suits inner loop
createStandardDeck ==
    [i \in 1 .. DECK_SIZE |->
        Card(Ranks[((i - 1) \div Len(Suits)) + 1], Suits[((i - 1) % Len(Suits)) + 1])]

\* std::shuffle leaves some permutation of the 52 cards, fixed by the seed.
\* The model's seeds select permutations i -> (stride * i + offset) mod 52
\* with the stride coprime to 52.
ShuffleStride(seed) == <<1, 3, 5, 7, 9, 11, 15, 17>>[((seed - 1) % 8) + 1]

ShuffleOffset(seed) == (seed * seed * 5) % DECK_SIZE

shuffle(cards, seed) ==
    [i \in 1 .. Len(cards) |->
        cards[((ShuffleStride(seed) * i + ShuffleOffset(seed)) % Len(cards)) + 1]]

\* Deck::Deck(seed)
NewDeck(seed) == shuffle(createStandardDeck, seed)

\* Deck::dealCards(count): count times pop_back; the result in dealing order
dealtCards(cards, count) == [i \in 1 .. count |-> cards[Len(cards) + 1 - i]]

\* a deck that keeps its cards when cards are dealt from it
remainingCards_Kept(cards, count) == cards

remainingCards(cards, count) == SubSeq(cards, 1, Len(cards) - count)

\* the call threw nothing
NoException == "none"

\* A Deck object: cards_ and the generator rng_, which selects the order
\* the next shuffle() leaves.
Deck(seed) == [cards |-> NewDeck(seed), rng |-> seed + 1]

dealCardThrows(d) ==
    IF d.cards = <<>> THEN "Cannot deal from empty deck" ELSE NoException

\* the deck dealCard() leaves; it returns cards_.back()
dealCard(d) ==
    IF dealCardThrows(d) # NoException THEN d
    ELSE [d EXCEPT !.cards = remainingCards(d.cards, 1)]

dealCardsThrows(d, count) ==
    IF count < 0 THEN "Cannot deal negative number of cards"
    ELSE IF count > Len(d.cards) THEN "Not enough cards in deck"
    ELSE NoException

\* the deck dealCards(count) leaves; it returns dealtCards(d.cards, count)
dealCards(d, count) ==
    IF dealCardsThrows(d, count) # NoException THEN d
    ELSE [d EXCEPT !.cards = remainingCards(d.cards, count)]

\* Deck::reset(): a standard deck again, shuffled by the generator as it is
resetDeck(d) == [cards |-> shuffle(createStandardDeck, d.rng), rng |-> d.rng + 1]

\* ------------------------------------------------------------------------
\* PokerEvaluator
\* ------------------------------------------------------------------------
HIGH_CARD == 0
PAIR == 1
TWO_PAIR == 2
THREE_OF_A_KIND == 3
STRAIGHT == 4
FLUSH == 5
FULL_HOUSE == 6
FOUR_OF_A_KIND == 7
STRAIGHT_FLUSH == 8

makeScore(handRank, tiebreakers) == <<handRank>> \o tiebreakers

\* rankCounts of analyzeRanks: how many cards of the hand have each rank value
analyzeRanks(hand) ==
    [r \in 2 .. 14 |-> Cardinality({i \in 1 .. Len(hand) : getRankValue(hand[i]) = r})]

\* an evaluator that sees no flush
isFlush_Never(hand) == FALSE

isFlush(hand) ==
    /\ hand # <<>>
    /\ \A i \in 1 .. Len(hand) : hand[i].suit = hand[1].suit

\* the set of distinct rank values of the hand (std::set<int> ranks)
rankSet(hand) == {getRankValue(hand[i]) : i \in 1 .. Len(hand)}

isStraightSeq(hand) ==
    LET sortedRanks == SetToSeq(rankSet(hand))
    IN \A i \in 2 .. Len(sortedRanks) : sortedRanks[i] = sortedRanks[i - 1] + 1

isWheel(hand) == SetToSeq(rankSet(hand)) = <<2, 3, 4, 5, 14>>

\* an evaluator that sees no straight
isStraight_Never(hand) == FALSE

isStraight(hand) ==
    /\ Cardinality(rankSet(hand)) = 5
    /\ (isStraightSeq(hand) \/ isWheel(hand))

\* an isStraight that reports the ace as the high card of the wheel
straightHighCard_AceHigh(hand) ==
    IF Cardinality(rankSet(hand)) # 5 THEN 0
    ELSE IF isStraightSeq(hand) \/ isWheel(hand) THEN Max(rankSet(hand))
    ELSE 0

\* the out-parameter highCard of isStraight (left at 0 when it returns false)
straightHighCard(hand) ==
    IF Cardinality(rankSet(hand)) # 5 THEN 0
    ELSE IF isStraightSeq(hand) THEN Max(rankSet(hand))
    ELSE IF isWheel(hand) THEN 5
    ELSE 0

\* the ranks with the given count, scanned from 14 down to 2
ranksWithCount(rankCounts, c) ==
    SortDesc(SetToSeq({r \in 2 .. 14 : rankCounts[r] = c}))

\* first rank with the given count in a scan from 14 down to 2, else 0
firstWithCount(rankCounts, c) ==
    IF ranksWithCount(rankCounts, c) = <<>> THEN 0
    ELSE Head(ranksWithCount(rankCounts, c))

allRanksDesc(hand) == SortDesc([i \in 1 .. Len(hand) |-> getRankValue(hand[i])])

evaluateFiveCardHandThrows(hand) ==
    IF Len(hand) # 5 THEN "Must have exactly 5 cards" ELSE NoException

evaluateFiveCardHand(hand) ==
    LET rankCounts == analyzeRanks(hand)
        isFlushHand == isFlush(hand)
        isStraightHand == isStraight(hand)
        straightHigh == straightHighCard(hand)
        quads == firstWithCount(rankCounts, 4)
        trips == firstWithCount(rankCounts, 3)
        pair == firstWithCount(rankCounts, 2)
        pairs == ranksWithCount(rankCounts, 2)
        singles == ranksWithCount(rankCounts, 1)
        kicker == firstWithCount(rankCounts, 1)
    IN  IF isFlushHand /\ isStraightHand
            THEN makeScore(STRAIGHT_FLUSH, <<straightHigh>>)
        ELSE IF quads > 0
            THEN makeScore(FOUR_OF_A_KIND, <<quads, kicker>>)
        ELSE IF trips > 0 /\ pair > 0
            THEN makeScore(FULL_HOUSE, <<trips, pair>>)
        ELSE IF isFlushHand
            THEN makeScore(FLUSH, allRanksDesc(hand))
        ELSE IF isStraightHand
            THEN makeScore(STRAIGHT, <<straightHigh>>)
        ELSE IF trips > 0
            THEN makeScore(THREE_OF_A_KIND, <<trips>> \o Resize(singles, 2))
        ELSE IF Len(pairs) >= 2
            THEN makeScore(TWO_PAIR, <<pairs[1], pairs[2], kicker>>)
        ELSE IF Len(pairs) = 1
            THEN makeScore(PAIR, <<pairs[1]>> \o Resize(singles, 3))
        ELSE makeScore(HIGH_CARD, allRanksDesc(hand))

\* a comparison that stops after the category
compareHands_CategoryOnly(score1, score2) ==
    IF score1[1] > score2[1] THEN 1 ELSE IF score1[1] < score2[1] THEN -1 ELSE 0

RECURSIVE compareFrom(_, _, _)
compareFrom(score1, score2, i) ==
    IF i > Min({Len(score1), Len(score2)}) THEN 0
    ELSE IF score1[i] > score2[i] THEN 1
    ELSE IF score1[i] < score2[i] THEN -1
    ELSE compareFrom(score1, score2, i + 1)

compareHands(score1, score2) == compareFrom(score1, score2, 1)

\* generateCombinationsHelper: the loop over i from start, each iteration
\* extending currentCombo by cards[i] and recursing from i + 1
RECURSIVE generateCombinationsHelper(_, _, _, _)
generateCombinationsHelper(cards, combinationSize, start, currentCombo) ==
    IF Len(currentCombo) = combinationSize THEN <<currentCombo>>
    ELSE IF start > Len(cards) THEN <<>>
    ELSE generateCombinationsHelper(cards, combinationSize, start + 1,
                                    Append(currentCombo, cards[start]))
         \o generateCombinationsHelper(cards, combinationSize, start + 1, currentCombo)

\* a generateCombinations that takes the five-card windows of the seven cards
generateCombinations_Windows(cards) ==
    <<SubSeq(cards, 1, 5), SubSeq(cards, 2, 6), SubSeq(cards, 3, 7)>>

generateCombinations(cards) == generateCombinationsHelper(cards, 5, 1, <<>>)

\* the loop of evaluateHand over the combinations, keeping the first best
RECURSIVE bestOf(_, _, _)
bestOf(combinations, i, bestScore) ==
    IF i > Len(combinations) THEN bestScore
    ELSE LET score == evaluateFiveCardHand(combinations[i])
         IN bestOf(combinations, i + 1,
                   IF bestScore = <<>> \/ compareHands(score, bestScore) > 0
                   THEN score ELSE bestScore)

evaluateHandThrows(holeCards, communityCards) ==
    IF Len(holeCards) # HOLE_CARDS_PER_PLAYER THEN "Must have exactly 2 hole cards"
    ELSE IF Len(communityCards) # COMMUNITY_CARDS THEN "Must have exactly 5 community cards"
    ELSE NoException

evaluateHand(holeCards, communityCards) ==
    bestOf(generateCombinations(holeCards \o communityCards), 1, <<>>)

\* ------------------------------------------------------------------------
\* Game (the rules factory)
\* ------------------------------------------------------------------------
FOLD == "FOLD"
ALL_IN == "ALL_IN"
DEAL == "DEAL"
Action == {FOLD, ALL_IN, DEAL}

\* GameParameters: rake and jackpot fee in money units, the jackpot payout
\* percentage in percent; the valid range [0, 1.0] is 0 .. Chip, resp. 0 .. 100
GameParameters(rake, fee, pct) ==
    [rake_per_hand |-> rake, jackpot_fee_per_hand |-> fee,
     jackpot_payout_percentage |-> pct]

DefaultGameParameters == GameParameters(0, 0, 0)

\* initialStacksBB is given in half big blinds: initialStacksBB[i] * bigBlind_
StackFromBB(halfBB, bigBlind) == (halfBB * bigBlind) \div 2

initializeDefaultStacks(bigBlind) == [i \in Seats |-> STARTING_STACK_BB * bigBlind]

GameInitialStacks(bigBlind, initialStacksBB) ==
    IF initialStacksBB = <<>> THEN initializeDefaultStacks(bigBlind)
    ELSE [i \in Seats |-> StackFromBB(initialStacksBB[i + 1], bigBlind)]

validateConfiguration(smallBlind, bigBlind, gameParams, initialStacks) ==
    IF initialStacks[0] < smallBlind THEN "Small blind player stack too small"
    ELSE IF initialStacks[1] < bigBlind THEN "Big blind player stack too small"
    ELSE IF gameParams.rake_per_hand < 0 \/ gameParams.rake_per_hand > Chip
        THEN "Rake per hand must be between 0 and 1"
    ELSE IF gameParams.jackpot_fee_per_hand < 0 \/ gameParams.jackpot_fee_per_hand > Chip
        THEN "Jackpot fee per hand must be between 0 and 1"
    ELSE IF gameParams.jackpot_payout_percentage < 0
            \/ gameParams.jackpot_payout_percentage > 100
        THEN "Jackpot payout percentage must be between 0 and 1"
    ELSE NoException

\* the exception Game::Game throws for these arguments, or NoException
GameThrows(smallBlind, bigBlind, gameParams, initialStacksBB) ==
    IF smallBlind <= 0 \/ bigBlind <= 0 THEN "Blinds must be positive"
    ELSE IF smallBlind >= bigBlind THEN "Small blind must be less than big blind"
    ELSE IF initialStacksBB # <<>> /\ Len(initialStacksBB) # NUM_PLAYERS
        THEN "Must specify stacks for all players"
    ELSE IF initialStacksBB # <<>>
            /\ \E i \in 1 .. Len(initialStacksBB) : initialStacksBB[i] <= 0
        THEN "All stacks must be positive"
    ELSE validateConfiguration(smallBlind, bigBlind, gameParams,
                               GameInitialStacks(bigBlind, initialStacksBB))

\* the Game object a successful construction leaves
Game(smallBlind, bigBlind, gameParams, initialStacksBB) ==
    [smallBlind |-> smallBlind, bigBlind |-> bigBlind, gameParams |-> gameParams,
     initialStacks |-> GameInitialStacks(bigBlind, initialStacksBB)]

\* Constructor arguments the model draws from (some of them rejected).
BlindChoices == {<<(4 * Chip) \div 10, Chip>>, <<Chip \div 2, Chip>>,
                 <<Chip, Chip>>, <<0, Chip>>}

ParamChoices == {DefaultGameParameters,
                 GameParameters(Chip \div 20, Chip \div 20, 0),
                 GameParameters(Chip + 1, 0, 0)}

\* per-seat stacks of 0.5, 1 and 8 big blinds (in half big blinds), the
\* default (empty vector), a vector that is too short and one with a zero
StackChoices ==
    [1 .. NUM_PLAYERS -> {1, 2, 2 * STARTING_STACK_BB}]
        \cup {<<>>, <<2, 2, 2>>, <<2, 2, 0, 2>>}

GameChoices ==
    {Game(b[1], b[2], p, st) :
        <<b, p, st>> \in {x \in BlindChoices \X ParamChoices \X StackChoices :
                            GameThrows(x[1][1], x[1][2], x[2], x[3]) = NoException}}

DefaultGame == Game((4 * Chip) \div 10, Chip, DefaultGameParameters, <<>>)

\* ------------------------------------------------------------------------
\* GameState
\* ------------------------------------------------------------------------
\* GameState::GameState(const Game*), with the deck shuffled by the given seed
InitialState(g, seed) ==
    [gameOver |-> FALSE,
     nextPlayer |-> 0,
     pot |-> g.smallBlind + g.bigBlind,
     initialStacks |-> g.initialStacks,
     playerStacks |-> [i \in Seats |->
                         IF i = 0 THEN g.initialStacks[i] - g.smallBlind
                         ELSE IF i = 1 THEN g.initialStacks[i] - g.bigBlind
                         ELSE g.initialStacks[i]],
     folded |-> [i \in Seats |-> FALSE],
     allInPlayers |-> {},
     deck |-> NewDeck(seed),
     holeCards |-> <<>>,
     communityCards |-> <<>>,
     sidePots |-> <<>>]

isTerminal(s) == s.gameOver

isChanceNode(s) == s.holeCards = <<>> /\ ~s.gameOver

getCurrentPlayer(s) == IF s.gameOver THEN -1 ELSE s.nextPlayer

getLegalActions(s) ==
    IF isChanceNode(s) THEN <<DEAL>>
    ELSE IF s.gameOver THEN <<>>
    ELSE IF getCurrentPlayer(s) < 0 \/ s.folded[getCurrentPlayer(s)] THEN <<>>
    ELSE <<FOLD, ALL_IN>>

getActivePlayerCount(s) == Cardinality({i \in Seats : ~s.folded[i]})

dealHoleCards(s) ==
    IF s.holeCards # <<>> THEN s
    ELSE [s EXCEPT !.holeCards = dealtCards(s.deck, NUM_PLAYERS * HOLE_CARDS_PER_PLAYER),
                   !.deck = remainingCards(s.deck, NUM_PLAYERS * HOLE_CARDS_PER_PLAYER)]

\* the loop of advanceToNextPlayer stepping to the seat before, not after
RECURSIVE advanceFrom_Backwards(_, _)
advanceFrom_Backwards(s, n) ==
    LET next == (n + NUM_PLAYERS - 1) % NUM_PLAYERS
    IN IF s.folded[next] /\ getActivePlayerCount(s) > 1 THEN advanceFrom_Backwards(s, next)
       ELSE next

\* do { next = (next + 1) % NUM_PLAYERS } while (folded[next] && active > 1)
RECURSIVE advanceFrom(_, _)
advanceFrom(s, n) ==
    LET next == (n + 1) % NUM_PLAYERS
    IN IF s.folded[next] /\ getActivePlayerCount(s) > 1 THEN advanceFrom(s, next)
       ELSE next

\* advanceToNextPlayer that leaves the seat that just acted in place
advanceToNextPlayer_Stays(s) == s

advanceToNextPlayer(s) == [s EXCEPT !.nextPlayer = advanceFrom(s, s.nextPlayer)]

\* shouldGameEnd without its all-in test: only the count of non-folded seats
shouldGameEnd_CountOnly(s) == getActivePlayerCount(s) <= 1

\* shouldGameEnd that already stops with two non-folded seats left
shouldGameEnd_TwoLeft(s) ==
    IF getActivePlayerCount(s) <= 2 THEN TRUE
    ELSE ~(\E i \in Seats : ~s.folded[i] /\ i \notin s.allInPlayers)

\* shouldGameEnd whose all-in test asks every seat, folded ones too
shouldGameEnd_FoldedAsked(s) ==
    IF getActivePlayerCount(s) <= 1 THEN TRUE
    ELSE ~(\E i \in Seats : i \notin s.allInPlayers)

shouldGameEnd(s) ==
    IF getActivePlayerCount(s) <= 1 THEN TRUE
    ELSE ~(\E i \in Seats : ~s.folded[i] /\ i \notin s.allInPlayers)

\* std::sort of the (amount, player) pairs: by amount, then by player
RECURSIVE SortPairs(_)
SortPairs(S) ==
    IF S = {} THEN <<>>
    ELSE LET m == CHOOSE x \in S : \A y \in S :
                      x[1] < y[1] \/ (x[1] = y[1] /\ x[2] <= y[2])
         IN <<m>> \o SortPairs(S \ {m})

\* the side-pot loop without "prevAmount = amount" at the end of its body
RECURSIVE sidePotLoop_PrevKept(_, _, _, _, _, _)
sidePotLoop_PrevKept(contributions, k, prevAmount, eligiblePlayers, remainingContributors, pots) ==
    IF k > Len(contributions) THEN pots
    ELSE LET amount == contributions[k][1]
             player == contributions[k][2]
             potIncrement == (amount - prevAmount) * Cardinality(remainingContributors)
             newPots == IF amount > prevAmount /\ eligiblePlayers # {} /\ potIncrement > 0
                        THEN Append(pots, [amount |-> potIncrement,
                                           contributors |-> SetToSeq(eligiblePlayers)])
                        ELSE pots
         IN sidePotLoop_PrevKept(contributions, k + 1, prevAmount, eligiblePlayers \ {player},
                                 remainingContributors \ {player}, newPots)

\* the loop of calculateSidePots over the sorted contributions, from index k
RECURSIVE sidePotLoop(_, _, _, _, _, _)
sidePotLoop(contributions, k, prevAmount, eligiblePlayers, remainingContributors, pots) ==
    IF k > Len(contributions) THEN pots
    ELSE LET amount == contributions[k][1]
             player == contributions[k][2]
             potIncrement == (amount - prevAmount) * Cardinality(remainingContributors)
             newPots == IF amount > prevAmount /\ eligiblePlayers # {} /\ potIncrement > 0
                        THEN Append(pots, [amount |-> potIncrement,
                                           contributors |-> SetToSeq(eligiblePlayers)])
                        ELSE pots
         IN sidePotLoop(contributions, k + 1, amount, eligiblePlayers \ {player},
                        remainingContributors \ {player}, newPots)

\* calculateSidePots that sizes each layer by the seats still eligible
calculateSidePots_EligibleCounted(s) ==
    LET contributors == {i \in Seats : s.initialStacks[i] - s.playerStacks[i] > 0}
        contributions ==
            SortPairs({<<s.initialStacks[i] - s.playerStacks[i], i>> : i \in contributors})
        eligiblePlayers == {i \in Seats : ~s.folded[i]}
    IN [s EXCEPT !.sidePots =
            sidePotLoop(contributions, 1, 0, eligiblePlayers, eligiblePlayers, <<>>)]

calculateSidePots(s) ==
    LET contributors == {i \in Seats : s.initialStacks[i] - s.playerStacks[i] > 0}
        contributions ==
            SortPairs({<<s.initialStacks[i] - s.playerStacks[i], i>> : i \in contributors})
        eligiblePlayers == {i \in Seats : ~s.folded[i]}
    IN [s EXCEPT !.sidePots =
            sidePotLoop(contributions, 1, 0, eligiblePlayers, contributors, <<>>)]

\* handleGameEnd that deals the board only when a showdown is left to play
handleGameEnd_BoardAtShowdownOnly(s) ==
    calculateSidePots(
        IF s.communityCards = <<>> /\ getActivePlayerCount(s) > 1
        THEN [s EXCEPT !.communityCards = dealtCards(s.deck, COMMUNITY_CARDS),
                       !.deck = remainingCards(s.deck, COMMUNITY_CARDS)]
        ELSE s)

handleGameEnd(s) ==
    calculateSidePots(
        IF s.communityCards = <<>>
        THEN [s EXCEPT !.communityCards = dealtCards(s.deck, COMMUNITY_CARDS),
                       !.deck = remainingCards(s.deck, COMMUNITY_CARDS)]
        ELSE s)

\* the switch of applyAction with an ALL_IN that leaves the stack in place
applyPlayerAction_StackKept(s, player, action) ==
    IF action = FOLD THEN [s EXCEPT !.folded[player] = TRUE]
    ELSE IF action = ALL_IN
        THEN [s EXCEPT !.pot = s.pot + s.playerStacks[player],
                       !.allInPlayers = s.allInPlayers \cup {player}]
    ELSE s

\* the switch of applyAction with an ALL_IN that moves the seat's initial
\* stack, blind included, into the pot
applyPlayerAction_InitialStackAdded(s, player, action) ==
    IF action = FOLD THEN [s EXCEPT !.folded[player] = TRUE]
    ELSE IF action = ALL_IN
        THEN [s EXCEPT !.pot = s.pot + s.initialStacks[player],
                       !.playerStacks[player] = 0,
                       !.allInPlayers = s.allInPlayers \cup {player}]
    ELSE s

\* the switch of applyAction with an ALL_IN that does not enter the seat in
\* the all-in set
applyPlayerAction_NotRecorded(s, player, action) ==
    IF action = FOLD THEN [s EXCEPT !.folded[player] = TRUE]
    ELSE IF action = ALL_IN
        THEN [s EXCEPT !.pot = s.pot + s.playerStacks[player],
                       !.playerStacks[player] = 0]
    ELSE s

\* the switch of applyAction (its default case throws, see applyActionThrows)
applyPlayerAction(s, player, action) ==
    IF action = FOLD THEN [s EXCEPT !.folded[player] = TRUE]
    ELSE IF action = ALL_IN
        THEN [s EXCEPT !.pot = s.pot + s.playerStacks[player],
                       !.playerStacks[player] = 0,
                       !.allInPlayers = s.allInPlayers \cup {player}]
    ELSE s

endIfOver(s) == IF shouldGameEnd(s) THEN handleGameEnd([s EXCEPT !.gameOver = TRUE]) ELSE s

\* applyAction without the DEAL test at a chance node
applyActionThrows_AnyAtChance(s, action) ==
    IF isChanceNode(s) THEN NoException
    ELSE IF s.gameOver THEN "Cannot apply action to terminal state"
    ELSE IF getCurrentPlayer(s) < 0 THEN "No current player"
    ELSE IF \A i \in 1 .. Len(getLegalActions(s)) : getLegalActions(s)[i] # action
        THEN "Illegal action"
    ELSE IF action \notin {FOLD, ALL_IN} THEN "Invalid action for non-chance node"
    ELSE NoException

\* the exception applyAction throws in state s, or NoException
applyActionThrows(s, action) ==
    IF isChanceNode(s)
        THEN IF action # DEAL THEN "Only DEAL action allowed at chance node"
             ELSE NoException
    ELSE IF s.gameOver THEN "Cannot apply action to terminal state"
    ELSE IF getCurrentPlayer(s) < 0 THEN "No current player"
    ELSE IF \A i \in 1 .. Len(getLegalActions(s)) : getLegalActions(s)[i] # action
        THEN "Illegal action"
    ELSE IF action \notin {FOLD, ALL_IN} THEN "Invalid action for non-chance node"
    ELSE NoException

\* applyAction without "nextPlayer_ = 2" after the deal
applyAction_NoFirstToAct(s, action) ==
    IF applyActionThrows(s, action) # NoException THEN s
    ELSE IF isChanceNode(s) THEN dealHoleCards(s)
    ELSE endIfOver(advanceToNextPlayer(applyPlayerAction(s, getCurrentPlayer(s), action)))

\* the state applyAction leaves (the state itself when it throws)
applyAction(s, action) ==
    IF applyActionThrows(s, action) # NoException THEN s
    ELSE IF isChanceNode(s) THEN [dealHoleCards(s) EXCEPT !.nextPlayer = 2]
    ELSE endIfOver(advanceToNextPlayer(applyPlayerAction(s, getCurrentPlayer(s), action)))

\* --- GameState objects in memory ---
\* A GameState object holds its Deck through deck_, a unique_ptr: in an
\* object the field deck is the address of the Deck, and decks gives the
\* cards of the Deck at each address.
\* the GameState the object o is, its deck read through the pointer
deref(o, heap) == [o EXCEPT !.deck = heap[o.deck]]

\* the object at the address of o once its members are those of s
stored(o, s) == [s EXCEPT !.deck = o.deck]

\* the object and the memory after o.applyAction(action)
applyActionOn(o, heap, action) ==
    [object |-> stored(o, applyAction(deref(o, heap), action)),
     decks |-> [heap EXCEPT ![o.deck] = applyAction(deref(o, heap), action).deck]]

\* a copy that takes over the pointer to the Deck of the original
copyGameState_SharedDeck(other, heap, address) ==
    [object |-> other, decks |-> heap]

\* GameState(const GameState& other): every member copied, the Deck copied
\* into a new Deck at the given address
copyGameState(other, heap, address) ==
    [object |-> [gameOver |-> other.gameOver,
                 nextPlayer |-> other.nextPlayer,
                 pot |-> other.pot,
                 initialStacks |-> other.initialStacks,
                 playerStacks |-> other.playerStacks,
                 folded |-> other.folded,
                 allInPlayers |-> other.allInPlayers,
                 deck |-> address,
                 holeCards |-> other.holeCards,
                 communityCards |-> other.communityCards,
                 sidePots |-> other.sidePots],
     decks |-> [heap EXCEPT ![address] = heap[other.deck]]]

\* --- GameState::getReturns ---
investments(s) == [i \in Seats |-> s.initialStacks[i] - s.playerStacks[i]]

holeCardsOf(s, player) == <<s.holeCards[player * 2 + 1], s.holeCards[player * 2 + 2]>>

\* The showdown hands the model's deck orders deal, each evaluated once:
\* ShowdownScores[h] is evaluateHand(h[1], h[2]), kept as a table so that the
\* evaluation is not repeated in every state.
ShowdownHands ==
    {<<<<NewDeck(seed)[DECK_SIZE - 2 * p], NewDeck(seed)[DECK_SIZE - 2 * p - 1]>>,
       [k \in 1 .. COMMUNITY_CARDS |->
           NewDeck(seed)[DECK_SIZE - NUM_PLAYERS * HOLE_CARDS_PER_PLAYER + 1 - k]]>> :
        <<seed, p>> \in (1 .. MaxSeed) \X Seats}

ShowdownScores == [h \in ShowdownHands |-> evaluateHand(h[1], h[2])]

\* evaluator.evaluateHand(playerHoleCards, communityCards_) of a showdown hand
scoreOf(h) == IF h \in ShowdownHands THEN ShowdownScores[h] ELSE evaluateHand(h[1], h[2])

playerScore(s, player) == scoreOf(<<holeCardsOf(s, player), s.communityCards>>)

\* the score of every seat's hand, read by each side pot for its players
playerScores(s) == [p \in Seats |-> playerScore(s, p)]

\* the players of a side pot that get a score: its non-folded contributors
scoredPlayers(s, sidePot) ==
    {sidePot.contributors[k] : k \in 1 .. Len(sidePot.contributors)}
        \ {i \in Seats : s.folded[i]}

\* winners that are every scored player of the pot, whatever they hold
potWinners_Everyone(scored, scores) == scored

\* After the sort by compareHands(a, b) > 0 the entry at the front is one
\* that no other entry beats; the winners are the front entry and the
\* entries that follow it and compare equal to it.
potWinners(scored, scores) ==
    {p \in scored : \A q \in scored : compareHands(scores[q], scores[p]) <= 0}

\* returns[winner] += sharePerWinner for every winner
addShares(returns, winners, sharePerWinner) ==
    <<returns[1] + (IF 0 \in winners THEN sharePerWinner ELSE 0),
      returns[2] + (IF 1 \in winners THEN sharePerWinner ELSE 0),
      returns[3] + (IF 2 \in winners THEN sharePerWinner ELSE 0),
      returns[4] + (IF 3 \in winners THEN sharePerWinner ELSE 0)>>

\* sharePerWinner = sidePot.amount / winners.size()
shareOut(returns, winners, amount) ==
    addShares(returns, winners, amount \div Cardinality(winners))

\* returns[] after the side pot has been split among its winners
splitPot(s, sidePot, returns, scores) ==
    IF Len(sidePot.contributors) = 0 \/ scoredPlayers(s, sidePot) = {} THEN returns
    ELSE shareOut(returns, potWinners(scoredPlayers(s, sidePot), scores), sidePot.amount)

\* the loop over the side pots, from the k-th on
RECURSIVE distributeFrom(_, _, _, _)
distributeFrom(s, k, returns, scores) ==
    IF k > Len(s.sidePots) THEN returns
    ELSE distributeFrom(s, k + 1, splitPot(s, s.sidePots[k], returns, scores), scores)

\* returns[] after the loop over the side pots, before investments are
\* subtracted (as a vector: seat i at index i + 1)
potWinnings(s) == distributeFrom(s, 1, <<0, 0, 0, 0>>, playerScores(s))

getReturnsThrows(s) ==
    IF ~s.gameOver THEN "Cannot get returns for non-terminal state" ELSE NoException

\* returns[i] -= investment of seat i
netReturns(win, inv) ==
    <<win[1] - inv[0], win[2] - inv[1], win[3] - inv[2], win[4] - inv[3]>>

\* the vector getReturns returns, seat i at index i + 1 (<<>> when it throws)
getReturns(s) ==
    IF getReturnsThrows(s) # NoException THEN <<>>
    ELSE netReturns(potWinnings(s), investments(s))

\* the condition under which getReturns prints its zero-sum WARNING
zeroSumWarning(s) == SumFn(investments(s), Seats) # SumSeq(potWinnings(s))

\* ------------------------------------------------------------------------
\* Exact arithmetic on the values the program keeps in doubles: a number is
\* a reduced fraction <<numerator, denominator>> with a positive denominator
\* ------------------------------------------------------------------------
Abs(x) == IF x < 0 THEN -x ELSE x

RECURSIVE GCD(_, _)
GCD(a, b) == IF b = 0 THEN a ELSE GCD(b, a % b)

Rat(n, d) ==
    LET g == GCD(Abs(n), Abs(d))
        sign == IF d < 0 THEN -1 ELSE 1
    IN <<(sign * n) \div g, (sign * d) \div g>>

RZero == Rat(0, 1)

ROne == Rat(1, 1)

RAdd(a, b) == Rat(a[1] * b[2] + b[1] * a[2], a[2] * b[2])

RSub(a, b) == Rat(a[1] * b[2] - b[1] * a[2], a[2] * b[2])

RMul(a, b) == Rat(a[1] * b[1], a[2] * b[2])

RDiv(a, b) == Rat(a[1] * b[2], a[2] * b[1])

RLess(a, b) == a[1] * b[2] < b[1] * a[2]

RMax(a, b) == IF RLess(a, b) THEN b ELSE a

\* std::accumulate(v.begin(), v.end(), 0.0)
RECURSIVE RSum(_)
RSum(v) == IF v = <<>> THEN RZero ELSE RAdd(Head(v), RSum(Tail(v)))

\* std::vector<double>(n, x)
Filled(n, x) == [i \in 1 .. n |-> x]

\* ------------------------------------------------------------------------
\* mccfr::Node
\* ------------------------------------------------------------------------
\* Node::Node(int numActions) throws on a non-positive count
NodeThrows(numActions) ==
    IF numActions <= 0 THEN "Number of actions must be positive" ELSE NoException

Node(numActions) ==
    [regretSum |-> Filled(numActions, RZero),
     strategy_ |-> Filled(numActions, RZero),
     strategySum |-> Filled(numActions, RZero),
     visitCount |-> 0]

\* strategy_[i] = clipped[i] / normalizingSum, or uniform when the sum is 0
matchRegrets(clipped, normalizingSum) ==
    IF RLess(RZero, normalizingSum)
    THEN [i \in 1 .. Len(clipped) |-> RDiv(clipped[i], normalizingSum)]
    ELSE Filled(Len(clipped), Rat(1, Len(clipped)))

\* the normalizing sum of the clipped regrets and the division by it
regretMatching(clipped) == matchRegrets(clipped, RSum(clipped))

\* regret matching with the negative regrets left in place
normalizeStrategy_Unclipped(n) ==
    [n EXCEPT !.strategy_ = regretMatching(n.regretSum)]

normalizeStrategy(n) ==
    [n EXCEPT !.strategy_ =
        regretMatching([i \in 1 .. Len(n.regretSum) |-> RMax(n.regretSum[i], RZero)])]

\* strategySum[i] += realizationWeight * strategy_[i]
accumulateStrategy(m, realizationWeight) ==
    [m EXCEPT !.strategySum =
        [i \in 1 .. Len(m.strategy_) |->
            RAdd(m.strategySum[i], RMul(realizationWeight, m.strategy_[i]))]]

\* the node Node::getStrategy(realizationWeight) leaves; it returns strategy_
getStrategy(n, realizationWeight) ==
    accumulateStrategy(normalizeStrategy([n EXCEPT !.visitCount = n.visitCount + 1]),
                       realizationWeight)

\* strategySum[i] / sum, or uniform when the sum is 0
averageOver(strategySum, sum) ==
    IF RLess(RZero, sum)
    THEN [i \in 1 .. Len(strategySum) |-> RDiv(strategySum[i], sum)]
    ELSE Filled(Len(strategySum), Rat(1, Len(strategySum)))

getAverageStrategy(n) == averageOver(n.strategySum, RSum(n.strategySum))

updateRegretThrows(n, action) ==
    IF action < 0 \/ action >= Len(n.regretSum) THEN "Invalid action index"
    ELSE NoException

\* an updateRegret that adds the regret to the sum of every action
updateRegret_EveryAction(n, action, regret) ==
    IF updateRegretThrows(n, action) # NoException THEN n
    ELSE [n EXCEPT !.regretSum = [i \in 1 .. Len(n.regretSum) |-> RAdd(n.regretSum[i], regret)]]

\* Node::updateRegret(action, regret), action counted from 0
updateRegret(n, action, regret) ==
    IF updateRegretThrows(n, action) # NoException THEN n
    ELSE [n EXCEPT !.regretSum[action + 1] = RAdd(n.regretSum[action + 1], regret)]

reset(n) == Node(Len(n.regretSum))

\* ------------------------------------------------------------------------
\* mccfr::utils
\* ------------------------------------------------------------------------
\* abstractHoleCards with the cards left in the order they were passed
abstractHoleCards_AsPassed(card1, card2) ==
    <<card1.rank, card2.rank,
      IF getRankValue(card1) = getRankValue(card2) THEN ""
      ELSE IF card1.suit = card2.suit THEN "s" ELSE "o">>

\* "s"/"o" for unpaired cards, the higher rank first; a pair has no suffix
abstractHoleCards(card1, card2) ==
    LET swap == getRankValue(card1) < getRankValue(card2)
        highCard == IF swap THEN card2 ELSE card1
        lowCard == IF swap THEN card1 ELSE card2
    IN <<highCard.rank, lowCard.rank,
         IF getRankValue(highCard) = getRankValue(lowCard) THEN ""
         ELSE IF highCard.suit = lowCard.suit THEN "s" ELSE "o">>

\* ":F", ":A" or ":P" of seat p
playerStatus(s, p) ==
    IF s.folded[p] THEN "F" ELSE IF p \in s.allInPlayers THEN "A" ELSE "P"

\* "ss << state.getPot()": a double is printed with six significant digits
\* and without trailing zeros.  The text is kept as <<m, e>>, standing for the
\* decimal m / 10^e with no zero at the end of its fraction (<<0, 0>> for zero).
RECURSIVE stripZeros(_, _)
stripZeros(m, e) ==
    IF m # 0 /\ m % 10 = 0 /\ e > 0 THEN stripZeros(m \div 10, e - 1) ELSE <<m, e>>

\* n / d rounded to an integer, halves upwards
roundDiv(n, d) == (2 * n + d) \div (2 * d)

\* the six digits of n / d, n scaled by powers of ten until six digits stand
\* before the point
RECURSIVE sixDigits(_, _, _)
sixDigits(n, d, e) ==
    IF n < 10 * 10 * 10 * 10 * 10 * d THEN sixDigits(10 * n, d, e + 1)
    ELSE stripZeros(roundDiv(n, d), e)

potText(pot) == IF pot <= 0 THEN <<0, 0>> ELSE sixDigits(pot, Chip, 0)

\* the key with the status of all the other seats for every player
getInformationSet_AllSeats(s, player) ==
    <<player,
      [k \in 1 .. NUM_PLAYERS - 1 |->
          <<SetToSeq(Seats \ {player})[k], playerStatus(s, SetToSeq(Seats \ {player})[k])>>],
      IF Len(s.holeCards) >= (player + 1) * 2
      THEN abstractHoleCards(s.holeCards[player * 2 + 1], s.holeCards[player * 2 + 2])
      ELSE <<>>,
      potText(s.pot)>>

\* The information-set string, kept as the tuple of the parts it is
\* printed from: the player, the [Pp:status] entries, the abstracted hole
\* cards (<<>> when the player has none yet) and the text of the pot.
getInformationSet(s, player) ==
    LET others == IF player <= 1 THEN SetToSeq(Seats \ {player})
                  ELSE SetToSeq(0 .. (player - 1))
    IN <<player,
         [k \in 1 .. Len(others) |-> <<others[k], playerStatus(s, others[k])>>],
         IF Len(s.holeCards) >= (player + 1) * 2
         THEN abstractHoleCards(s.holeCards[player * 2 + 1], s.holeCards[player * 2 + 2])
         ELSE <<>>,
         potText(s.pot)>>

\* The thread-local generator: seeded once, every draw a function of the
\* draws before it.  The model's generator is x -> (5x + 3) mod RngModulus
\* and its draw in [0, 1) is x / RngModulus.
RngModulus == 2 * 4

rngNext(x) == (5 * x + 3) % RngModulus

rngDraw(x) == Rat(rngNext(x), RngModulus)

\* the loop of sampleAction from index i on, with the sum so far
RECURSIVE sampleFrom(_, _, _, _)
sampleFrom(strategy, r, i, cumulative) ==
    IF i > Len(strategy) THEN Len(strategy) - 1
    ELSE IF RLess(r, RAdd(cumulative, strategy[i])) THEN i - 1
    ELSE sampleFrom(strategy, r, i + 1, RAdd(cumulative, strategy[i]))

\* sampleAction(strategy, rng) with the draw r; the action index from 0
sampleAction(strategy, r) == sampleFrom(strategy, r, 1, RZero)

\* ------------------------------------------------------------------------
\* mccfr::Trainer
\* ------------------------------------------------------------------------
\* the empty nodeMap_
EmptyNodeMap == [k \in {} |-> Node(2)]

\* nodeMap_ after "if (find(infoSet) == end()) emplace(infoSet, Node(n))"
ensureNode(nodeMap, infoSet, numActions) ==
    IF infoSet \in DOMAIN nodeMap THEN nodeMap
    ELSE (infoSet :> Node(numActions)) @@ nodeMap

putNode(nodeMap, infoSet, n) == (infoSet :> n) @@ nodeMap

\* reachProb with the entry of a seat scaled by p
scaleReach(reachProb, seat, p) ==
    [i \in 1 .. Len(reachProb) |->
        IF i = seat + 1 THEN RMul(reachProb[i], p) ELSE reachProb[i]]

\* the regret updates of the trained player's node, from action i on
RECURSIVE updateRegrets(_, _, _, _)
updateRegrets(n, utilities, nodeUtility, i) ==
    IF i > Len(utilities) THEN n
    ELSE updateRegrets(updateRegret(n, i - 1, RSub(utilities[i], nodeUtility)),
                       utilities, nodeUtility, i + 1)

\* Trainer::mccfr(state, player, reachProb): the utility it returns with the
\* nodeMap_ and the generator it leaves
RECURSIVE mccfr(_, _, _, _, _)

\* what mccfr returns once a recursive call has returned r (the utility of
\* the sampled action is passed through)
walkResult(utility, nodeMap, rng) ==
    [utility |-> utility, nodeMap |-> nodeMap, rng |-> rng]

\* the loop over the legal actions of the trained player, from the i-th on
RECURSIVE mccfrActions(_, _, _, _, _, _, _, _)

\* the rest of the loop once the call for action i has returned r
mccfrActionsNext(s, player, reachProb, strategy, i, utilities, r) ==
    mccfrActions(s, player, reachProb, strategy, i + 1,
                 Append(utilities, r.utility), r.nodeMap, r.rng)

mccfrActions(s, player, reachProb, strategy, i, utilities, nodeMap, rng) ==
    IF i > Len(getLegalActions(s))
    THEN [utilities |-> utilities, nodeMap |-> nodeMap, rng |-> rng]
    ELSE mccfrActionsNext(s, player, reachProb, strategy, i, utilities,
                          mccfr(applyAction(s, getLegalActions(s)[i]), player,
                                scaleReach(reachProb, player, strategy[i]), nodeMap, rng))

\* nodeUtility += strategy[i] * utilities[i] over the actions
nodeUtilityOf(strategy, utilities) ==
    RSum([i \in 1 .. Len(utilities) |-> RMul(strategy[i], utilities[i])])

\* the regret updates of the node of infoSet and the value mccfr returns
regretsUpdated(infoSet, sub, nodeUtility) ==
    walkResult(nodeUtility,
               putNode(sub.nodeMap, infoSet,
                       updateRegrets(sub.nodeMap[infoSet], sub.utilities, nodeUtility, 1)),
               sub.rng)

\* the branch "currentPlayer == player" after the loop over the actions
trainedPlayer(infoSet, strategy, sub) ==
    regretsUpdated(infoSet, sub, nodeUtilityOf(strategy, sub.utilities))

\* the branch of the other players once the action has been sampled
sampledPlayer(s, player, reachProb, currentPlayer, legalActions, strategy, visitedMap, rng, actionIndex) ==
    mccfr(applyAction(s, legalActions[actionIndex + 1]), player,
          scaleReach(reachProb, currentPlayer, strategy[actionIndex + 1]),
          visitedMap, rngNext(rng))

\* mccfr after node.getStrategy(reachProb[currentPlayer]) left the map visitedMap
mccfrBranch(s, player, reachProb, currentPlayer, infoSet, legalActions, strategy, visitedMap, rng) ==
    IF currentPlayer = player
    THEN trainedPlayer(infoSet, strategy,
                       mccfrActions(s, player, reachProb, strategy, 1, <<>>,
                                    visitedMap, rng))
    ELSE sampledPlayer(s, player, reachProb, currentPlayer, legalActions, strategy,
                       visitedMap, rng, sampleAction(strategy, rngDraw(rng)))

\* mccfr once the node of infoSet has been visited
mccfrVisited(s, player, reachProb, currentPlayer, infoSet, legalActions, withNode, visited, rng) ==
    mccfrBranch(s, player, reachProb, currentPlayer, infoSet, legalActions,
                visited.strategy_, putNode(withNode, infoSet, visited), rng)

\* mccfr once the node of infoSet is in the map withNode
mccfrNode(s, player, reachProb, currentPlayer, infoSet, legalActions, withNode, rng) ==
    mccfrVisited(s, player, reachProb, currentPlayer, infoSet, legalActions, withNode,
                 getStrategy(withNode[infoSet], reachProb[currentPlayer + 1]), rng)

\* mccfr at a decision node of currentPlayer with the information set infoSet
mccfrDecision(s, player, reachProb, nodeMap, rng, currentPlayer, infoSet, legalActions) ==
    mccfrNode(s, player, reachProb, currentPlayer, infoSet, legalActions,
              ensureNode(nodeMap, infoSet, Len(legalActions)), rng)

\* mccfr at a decision node of currentPlayer
mccfrPlayer(s, player, reachProb, nodeMap, rng, currentPlayer) ==
    mccfrDecision(s, player, reachProb, nodeMap, rng, currentPlayer,
                  getInformationSet(s, currentPlayer), getLegalActions(s))

mccfr(s, player, reachProb, nodeMap, rng) ==
    IF isTerminal(s)
        THEN walkResult(Rat(getReturns(s)[player + 1], 1), nodeMap, rng)
    ELSE IF isChanceNode(s)
        THEN mccfr(applyAction(s, DEAL), player, reachProb, nodeMap, rng)
    ELSE mccfrPlayer(s, player, reachProb, nodeMap, rng, getCurrentPlayer(s))

\* the index of the first largest entry
RECURSIVE bestActionFrom(_, _, _)
bestActionFrom(strategy, i, bestAction) ==
    IF i > Len(strategy) THEN bestAction
    ELSE bestActionFrom(strategy, i + 1,
                        IF RLess(strategy[bestAction + 1], strategy[i]) THEN i - 1
                        ELSE bestAction)

\* Trainer::getExactUtilities(state): the terminal state its loop ends in
\* and the generator it leaves; it returns the getReturns() of that state
RECURSIVE playOut(_, _, _)

\* the action the loop takes at the information set infoSet: the best one of
\* the average strategy when the node exists, else one sampled uniformly
playOutStep(s, nodeMap, rng, legalActions, infoSet) ==
    IF infoSet \in DOMAIN nodeMap
    THEN playOut(applyAction(s, legalActions[
                    bestActionFrom(getAverageStrategy(nodeMap[infoSet]), 2, 0) + 1]),
                 nodeMap, rng)
    ELSE playOut(applyAction(s, legalActions[
                    sampleAction(Filled(Len(legalActions), Rat(1, Len(legalActions))),
                                 rngDraw(rng)) + 1]),
                 nodeMap, rngNext(rng))

\* one turn of the loop with the legal actions of the state
playOutActions(s, nodeMap, rng, legalActions) ==
    IF Len(legalActions) = 0 THEN [state |-> s, rng |-> rng]
    ELSE playOutStep(s, nodeMap, rng, legalActions,
                     getInformationSet(s, getCurrentPlayer(s)))

playOut(s, nodeMap, rng) ==
    IF isTerminal(s) THEN [state |-> s, rng |-> rng]
    ELSE IF isChanceNode(s) THEN playOut(applyAction(s, DEAL), nodeMap, rng)
    ELSE playOutActions(s, nodeMap, rng, getLegalActions(s))

\* the vector of doubles getReturns() gives
asUtilities(returns) == [i \in 1 .. Len(returns) |-> Rat(returns[i], 1)]

\* "return currentState.getReturns()" at the end of the loop
exactResult(end) ==
    [state |-> end.state, rng |-> end.rng,
     utilities |-> asUtilities(getReturns(end.state))]

getExactUtilities(s, nodeMap, rng) == exactResult(playOut(s, nodeMap, rng))

\* the four walks of one iteration, from the walk of seat `player` on
RECURSIVE trainWalks(_, _, _, _, _)

\* the rest of the walks once the walk of seat `player` has returned r
trainWalksNext(baseState, player, mccfrUtilities, r) ==
    trainWalks(baseState, player + 1, Append(mccfrUtilities, r.utility),
               r.nodeMap, r.rng)

trainWalks(baseState, player, mccfrUtilities, nodeMap, rng) ==
    IF player >= NUM_PLAYERS
    THEN [mccfrUtilities |-> mccfrUtilities, nodeMap |-> nodeMap, rng |-> rng]
    ELSE trainWalksNext(baseState, player, mccfrUtilities,
                        mccfr(baseState, player, Filled(NUM_PLAYERS, ROne), nodeMap, rng))

\* stats_{}: a value-initialized TrainingStats
TrainingStats == [totalIterations |-> 0, informationSetsCount |-> 0, finalUtilities |-> <<>>]

\* the Trainer after construction, its generator seeded with rngSeed
Trainer(rngSeed) ==
    [nodeMap |-> EmptyNodeMap,
     stats |-> TrainingStats,
     rng |-> rngSeed,
     phase |-> "constructed",
     iterations |-> 0,
     iteration |-> 0,
     totalUtilities |-> Filled(NUM_PLAYERS, RZero),
     avgUtilities |-> Filled(NUM_PLAYERS, RZero)]

\* the entry of train(config): the sums are cleared, nodeMap_ is kept
trainStart(tr, iterations) ==
    [tr EXCEPT !.phase = "training",
               !.stats.totalIterations = 0,
               !.iterations = iterations,
               !.iteration = 0,
               !.totalUtilities = Filled(NUM_PLAYERS, RZero),
               !.avgUtilities = Filled(NUM_PLAYERS, RZero)]

\* utility tracking with the utilities the four walks returned instead of
\* the exact utilities of one played-out hand
trackedUtilities_Walks(walks, exact) == walks.mccfrUtilities

\* "For utility tracking, use exact utilities": the vector an iteration adds
\* to totalUtilities
trackedUtilities(walks, exact) == exact.utilities

\* the Trainer after totalUtilities[p] += ... and avgUtilities[p] = total / (iter + 1)
utilitiesTracked(tr, nodeMap, rng, total) ==
    [tr EXCEPT !.nodeMap = nodeMap,
               !.rng = rng,
               !.iteration = tr.iteration + 1,
               !.stats.totalIterations = tr.iteration + 1,
               !.totalUtilities = total,
               !.avgUtilities =
                   [p \in 1 .. NUM_PLAYERS |-> RDiv(total[p], Rat(tr.iteration + 1, 1))]]

addUtilities(totalUtilities, utilities) ==
    [p \in 1 .. NUM_PLAYERS |-> RAdd(totalUtilities[p], utilities[p])]

\* the iteration after getExactUtilities(baseState) has returned exact
iterationTracked(tr, walks, exact) ==
    [trainer |-> utilitiesTracked(tr, walks.nodeMap, exact.rng,
                                  addUtilities(tr.totalUtilities,
                                               trackedUtilities(walks, exact))),
     terminalState |-> exact.state]

\* the iteration after the four walks have returned
iterationWalked(tr, baseState, walks) ==
    iterationTracked(tr, walks, getExactUtilities(baseState, walks.nodeMap, walks.rng))

\* one iteration of the loop of train(): the Trainer it leaves and the
\* terminal state its exact utilities were read from
trainIteration(tr, baseState) ==
    iterationWalked(tr, baseState, trainWalks(baseState, 0, <<>>, tr.nodeMap, tr.rng))

\* a return from train() that leaves the statistics as they were
trainReturn_StaleStats(tr) == [tr EXCEPT !.phase = "returned"]

\* the end of train(): the statistics are filled in and avgUtilities returned
trainReturn(tr) ==
    [tr EXCEPT !.phase = "returned",
               !.stats.informationSetsCount = Cardinality(DOMAIN tr.nodeMap),
               !.stats.finalUtilities = tr.avgUtilities]

\* Trainer::getAllStrategies: the average strategy of every node of the map
getAllStrategies(tr) == [infoSet \in DOMAIN tr.nodeMap |-> getAverageStrategy(tr.nodeMap[infoSet])]

\* --- RealtimeVisualizer and the hand-off from train() ---
\* The record holds the members of the RealtimeVisualizer (their names end
\* in _), the configuration, and the place each of the three threads is at:
\* the thread that runs train(), the visualization thread and the web
\* server thread.  A mutex is Free or holds the name of the thread that
\* locked it.  A data point is the number of its iteration.
Free == "free"

RealtimeConfig(enabled, updateInterval, maxDataPoints) ==
    [enabled |-> enabled, updateInterval |-> updateInterval, maxDataPoints |-> maxDataPoints]

\* a Trainer with visualizer_(nullptr) about to enter train(config)
Visualization(config, iterations) ==
    [config |-> config,
     iterations |-> iterations,
     train |-> "entry",
     iteration |-> 0,
     totalIterations |-> 0,
     visualizer_ |-> FALSE,
     running_ |-> FALSE,
     shouldStop_ |-> FALSE,
     webServerRunning_ |-> FALSE,
     dataPoints_ |-> <<>>,
     latestDataJson_ |-> 0,
     dataMutex_ |-> Free,
     latestDataMutex_ |-> Free,
     visualizationThread_ |-> "none",
     webServerThread_ |-> "none"]

\* RealtimeVisualizer::start(): the web server thread and the visualization
\* thread are created
visualizerStarted(v) ==
    [v EXCEPT !.visualizer_ = TRUE,
              !.webServerThread_ = "setup",
              !.running_ = TRUE,
              !.shouldStop_ = FALSE,
              !.visualizationThread_ = "top"]

\* the entry of train(): the visualizer is made and started if enabled
trainEntered(v) ==
    [(IF v.config.enabled THEN visualizerStarted(v) ELSE v)
        EXCEPT !.train = "iterate", !.iteration = 1, !.totalIterations = 0]

\* the walks and the statistics of an iteration, or the end of the loop
iterated(v) ==
    IF v.iteration <= v.iterations
    THEN [v EXCEPT !.totalIterations = v.iteration, !.train = "handOff"]
    ELSE [v EXCEPT !.train = "done"]

nextIteration(v) == [v EXCEPT !.iteration = v.iteration + 1, !.train = "iterate"]

\* "if (visualizer_ && visualizer_->isRunning() && (iteration % updateInterval
\* == 0 || iteration == config.iterations))"
handOffDue(v) ==
    /\ v.visualizer_
    /\ v.running_
    /\ (v.iteration % v.config.updateInterval = 0 \/ v.iteration = v.iterations)

\* the hand-off is skipped, or addDataPoint is entered and goes for the lock
\* of dataMutex_ ("if (!running_) return" first)
handOffChecked(v) ==
    IF handOffDue(v) /\ v.running_ THEN [v EXCEPT !.train = "lockData"]
    ELSE nextIteration(v)

\* a trim that drops the newest samples: pop_back in place of pop_front
RECURSIVE trimmed_NewestDropped(_, _)
trimmed_NewestDropped(dataPoints, maxDataPoints) ==
    IF Len(dataPoints) > maxDataPoints
    THEN trimmed_NewestDropped(SubSeq(dataPoints, 1, Len(dataPoints) - 1), maxDataPoints)
    ELSE dataPoints

\* "while (dataPoints_.size() > maxDataPoints) dataPoints_.pop_front()"
RECURSIVE trimmed(_, _)
trimmed(dataPoints, maxDataPoints) ==
    IF Len(dataPoints) > maxDataPoints THEN trimmed(Tail(dataPoints), maxDataPoints)
    ELSE dataPoints

\* addDataPoint under the lock of dataMutex_: push_back, then trim
dataPointAdded(v) ==
    [v EXCEPT !.dataPoints_ = trimmed(Append(v.dataPoints_, v.iteration), v.config.maxDataPoints),
              !.train = "notify"]

\* dataCondition_.notify_one(), then "if (webServerRunning_)" the broadcast
\* goes for the lock of latestDataMutex_
notified(v) ==
    [v EXCEPT !.visualizationThread_ = IF @ = "waiting" THEN "notified" ELSE @,
              !.train = IF v.webServerRunning_ THEN "lockLatest" ELSE "iterate",
              !.iteration = IF v.webServerRunning_ THEN @ ELSE @ + 1]

\* broadcastDataToClients under the lock of latestDataMutex_
broadcast(v) == nextIteration([v EXCEPT !.latestDataJson_ = v.iteration])

\* visualizationLoop: the lock is taken at the top of the loop
visualizationLocked(v) ==
    [v EXCEPT !.dataMutex_ = "visualization", !.visualizationThread_ = "locked"]

\* visualizationLoop under the lock: wait (the lock released) while there
\* are no data points, else updatePlots(), unlock and sleep
visualizationWaited(v) ==
    IF v.dataPoints_ = <<>> /\ ~v.shouldStop_
    THEN [v EXCEPT !.dataMutex_ = Free, !.visualizationThread_ = "waiting"]
    ELSE [v EXCEPT !.dataMutex_ = Free,
                   !.visualizationThread_ = IF v.shouldStop_ THEN "ended" ELSE "sleeping"]

\* the web server thread: socket, bind and listen succeed, or one fails
webServerSetUp(v, succeeded) ==
    IF succeeded THEN [v EXCEPT !.webServerRunning_ = TRUE, !.webServerThread_ = "select"]
    ELSE [v EXCEPT !.webServerThread_ = "ended"]

\* handleWebRequest after read(): "GET /data" goes for the lock of
\* latestDataMutex_, any other request is answered with the page
requestRead(v, request) ==
    [v EXCEPT !.webServerThread_ = IF request = "GET /data" THEN "lockLatest" ELSE "sending"]

webLocked(v) == [v EXCEPT !.latestDataMutex_ = "web", !.webServerThread_ = "building"]

\* a handleWebRequest whose lock lasts to the end of the function
responseBuilt_LockKept(v) == [v EXCEPT !.webServerThread_ = "sending"]

\* the end of the block of the lock_guard in handleWebRequest: the response
\* is built, the lock released before send()
responseBuilt(v) == [v EXCEPT !.latestDataMutex_ = Free, !.webServerThread_ = "sending"]

\* --- Trainer::loadStrategies ---
\* A line of the file is what the parser can tell of it: an empty line, a
\* comment ("#..."), a line that starts with "InfoSet:" (its key, and the
\* text after " Visits:" if any: a count, or text that is no number), a line
\* that starts with "Strategy:" (the words after it, numbers or not; bare
\* when nothing at all follows the colon), or any other line.
EmptyLine == [kind |-> "empty"]

CommentLine == [kind |-> "comment"]

OtherLine == [kind |-> "other"]

InfoSetLine(infoSet, visits) == [kind |-> "InfoSet", infoSet |-> infoSet, visits |-> visits]

StrategyLine(words) == [kind |-> "Strategy", words |-> words, bare |-> FALSE]

BareStrategyLine == [kind |-> "Strategy", words |-> <<>>, bare |-> TRUE]

\* a word of the text: a number, a word that converts to no number, and the
\* visits of a line without " Visits:" (visits stays 0)
Number(value) == [text |-> "number", value |-> value]

NotANumber == [text |-> "word", value |-> RZero]

NoVisits == [text |-> "absent", value |-> RZero]

\* "while (iss >> prob)": the words up to the first that is no number
RECURSIVE numericPrefix(_)
numericPrefix(words) ==
    IF words = <<>> \/ Head(words).text # "number" THEN <<>>
    ELSE <<Head(words)>> \o numericPrefix(Tail(words))

\* the vector strategy read from the words after "Strategy:"
parsedProbabilities(words) ==
    [i \in 1 .. Len(numericPrefix(words)) |-> numericPrefix(words)[i].value]

\* "node.updateRegret(i, strategy[i] * visits)" for i from 0
RECURSIVE reconstructed(_, _, _, _)
reconstructed(n, strategy, visits, i) ==
    IF i >= Len(strategy) THEN n
    ELSE reconstructed(updateRegret(n, i, RMul(strategy[i + 1], visits)),
                       strategy, visits, i + 1)

\* the node stored for a strategy line: Node(strategy.size()) with its
\* regret sums set from the strategy and the visits (0 without " Visits:")
loadedNode(strategy, visits) ==
    reconstructed(Node(Len(strategy)), strategy, visits.value, 0)

loadResult(nodeMap, result, exception) ==
    [nodeMap |-> nodeMap, returned |-> result, thrown |-> exception]

\* "Error: Expected Strategy line after InfoSet": return false, the entries
\* loaded so far left in nodeMap_
strategyLineMissing(nodeMap) == loadResult(nodeMap, FALSE, NoException)

\* the getline loop of loadStrategies from line i on
RECURSIVE loadLines(_, _, _)
loadLines(lines, i, nodeMap) ==
    IF i > Len(lines) THEN loadResult(nodeMap, TRUE, NoException)
    ELSE IF lines[i].kind # "InfoSet" THEN loadLines(lines, i + 1, nodeMap)
    ELSE IF lines[i].visits.text = "word" THEN loadResult(nodeMap, <<>>, "stoull")
    ELSE IF i + 1 > Len(lines) \/ lines[i + 1].kind # "Strategy" THEN strategyLineMissing(nodeMap)
    ELSE IF lines[i + 1].bare THEN loadResult(nodeMap, <<>>, "basic_string::substr")
    ELSE IF parsedProbabilities(lines[i + 1].words) = <<>> THEN loadLines(lines, i + 2, nodeMap)
    ELSE loadLines(lines, i + 2,
                   putNode(nodeMap, lines[i].infoSet,
                           loadedNode(parsedProbabilities(lines[i + 1].words), lines[i].visits)))

\* Trainer::loadStrategies(filename): a file that cannot be opened leaves
\* nodeMap_ alone, any other is read into the cleared map
loadStrategies(tr, file) ==
    IF ~file.exists THEN loadResult(tr.nodeMap, FALSE, NoException)
    ELSE loadLines(file.lines, 1, EmptyNodeMap)

\* ------------------------------------------------------------------------
\* State of the model
\* ------------------------------------------------------------------------
VARIABLES
    game,       \* the Game the hand is played under
    state,      \* the GameState
    thrown,     \* the exception the last call raised, or NoException
    returned,   \* the value the last call returned
    trainer,    \* the Trainer
    node,       \* a Node on its own
    calls,      \* the number of calls made on the Node or on the Deck
    deck,       \* a Deck on its own
    drawn,      \* the cards the Deck has returned since it was built or reset
    original,   \* a GameState object
    clone,      \* the GameState object made by original.clone()
    decks,      \* the cards of the Deck at each address
    fiveCardHand,   \* the five cards handed to the PokerEvaluator
    sevenCards,     \* the hole cards and community cards handed to it
    visualization,  \* the RealtimeVisualizer, its threads and the training loop
    strategyFile,   \* the lines of the strategy file
    walk            \* the place one iteration of train() is at, walk by walk

\* the objects that the decks, the clones and the five-card hands leave alone
others == <<sevenCards, visualization, strategyFile, walk>>

\* the objects that a hand, the trainer and the node leave alone
aside == <<deck, drawn, original, clone, decks, fiveCardHand, others>>

vars == <<game, state, thrown, returned, trainer, node, calls, aside>>

\* the object of a new GameState of game g and its copy, the decks at the
\* addresses 1 and 2
NewObjects(g, seed) ==
    [original |-> [InitialState(g, seed) EXCEPT !.deck = 1],
     copied |-> copyGameState([InitialState(g, seed) EXCEPT !.deck = 1],
                              <<NewDeck(seed), <<>>>>, 2)]

InitObjects(g, seed) ==
    /\ original = NewObjects(g, seed).original
    /\ clone = NewObjects(g, seed).copied.object
    /\ decks = NewObjects(g, seed).copied.decks

\* no cards handed to the evaluator
NoHand == [category |-> -1, cards |-> <<>>]

NoCards == [holeCards |-> <<>>, communityCards |-> <<>>]

\* a trainer that has not entered train()
NoVisualization == Visualization(RealtimeConfig(FALSE, 10, 1000), 0)

NoFile == [exists |-> FALSE, lines |-> <<>>]

\* no iteration of train() followed step by step
NoWalk == [phase |-> "none"]

InitOthers ==
    /\ sevenCards = NoCards
    /\ visualization = NoVisualization
    /\ strategyFile = NoFile
    /\ walk = NoWalk

InitAside ==
    /\ deck = Deck(1)
    /\ drawn = <<>>
    /\ InitObjects(DefaultGame, 1)
    /\ fiveCardHand = NoHand
    /\ InitOthers

TypeOK ==
    /\ state.gameOver \in BOOLEAN
    /\ state.nextPlayer \in Seats
    /\ state.allInPlayers \subseteq Seats
    /\ \A i \in Seats : state.playerStacks[i] >= 0 /\ state.folded[i] \in BOOLEAN
    /\ returned = <<>> \/ Len(returned) = NUM_PLAYERS

\* ------------------------------------------------------------------------
\* One hand of play
\* ------------------------------------------------------------------------
Init ==
    /\ game \in GameChoices
    /\ \E seed \in 1 .. MaxSeed : state = InitialState(game, seed)
    /\ thrown = NoException
    /\ returned = <<>>
    /\ trainer = Trainer(0)
    /\ node = Node(2)
    /\ calls = 0
    /\ InitAside

\* state.applyAction(action), legal or not
ApplyAction(action) ==
    /\ state' = applyAction(state, action)
    /\ thrown' = applyActionThrows(state, action)
    /\ UNCHANGED <<game, returned, trainer, node, calls, aside>>

\* state.getReturns(), on a terminal state or not
GetReturns ==
    /\ returned' = IF getReturnsThrows(state) # NoException THEN returned
                   ELSE getReturns(state)
    /\ thrown' = getReturnsThrows(state)
    /\ UNCHANGED <<game, state, trainer, node, calls, aside>>

Next ==
    \/ \E action \in Action : ApplyAction(action)
    \/ GetReturns

Spec == Init /\ [][Next]_vars

\* ------------------------------------------------------------------------
\* A Node under any sequence of calls
\* ------------------------------------------------------------------------
\* bound: the number of calls made on the node
MaxCalls == 5

\* the regrets added and the reach weights passed in the model
RegretChoices == {Rat(-1, 1), Rat(1, 1)}

WeightChoices == {RZero, Rat(1, 2), ROne}

\* the action counts of the nodes: 2 at a decision point (FOLD, ALL_IN),
\* 3 from the default constructor
ActionCounts == {2, 3}

InitNode ==
    /\ game = DefaultGame
    /\ state = InitialState(DefaultGame, 1)
    /\ thrown = NoException
    /\ returned = <<>>
    /\ trainer = Trainer(0)
    /\ \E numActions \in ActionCounts : node = Node(numActions)
    /\ calls = 0
    /\ InitAside

\* node.updateRegret(action, regret), the index valid or not
NodeUpdateRegret(action, regret) ==
    /\ calls < MaxCalls
    /\ calls' = calls + 1
    /\ node' = updateRegret(node, action, regret)
    /\ thrown' = updateRegretThrows(node, action)
    /\ UNCHANGED <<game, state, returned, trainer, aside>>

\* node.getStrategy(realizationWeight)
NodeGetStrategy(realizationWeight) ==
    /\ calls < MaxCalls
    /\ calls' = calls + 1
    /\ node' = getStrategy(node, realizationWeight)
    /\ returned' = node'.strategy_
    /\ thrown' = NoException
    /\ UNCHANGED <<game, state, trainer, aside>>

\* node.getAverageStrategy()
NodeGetAverageStrategy ==
    /\ calls < MaxCalls
    /\ calls' = calls + 1
    /\ returned' = getAverageStrategy(node)
    /\ thrown' = NoException
    /\ UNCHANGED <<game, state, trainer, node, aside>>

\* node.reset()
NodeReset ==
    /\ calls < MaxCalls
    /\ calls' = calls + 1
    /\ node' = reset(node)
    /\ thrown' = NoException
    /\ UNCHANGED <<game, state, returned, trainer, aside>>

NextNode ==
    \/ \E action \in -1 .. Len(node.regretSum), regret \in RegretChoices :
            NodeUpdateRegret(action, regret)
    \/ \E realizationWeight \in WeightChoices : NodeGetStrategy(realizationWeight)
    \/ NodeGetAverageStrategy
    \/ NodeReset

SpecNode == InitNode /\ [][NextNode]_vars

\* ------------------------------------------------------------------------
\* Training
\* ------------------------------------------------------------------------
\* bounds: config.iterations, and the seeds of the thread-local generator
MaxIterations == 3

MaxRngSeed == 1

\* the tables trained on: the default one, and one with a short stack
ShortStackGame == Game((4 * Chip) \div 10, Chip, DefaultGameParameters, <<16, 16, 1, 16>>)

TrainerGames == {DefaultGame, ShortStackGame}

InitTrainer ==
    /\ game \in TrainerGames
    /\ state = InitialState(game, 1)
    /\ thrown = NoException
    /\ returned = <<>>
    /\ \E rngSeed \in 0 .. MaxRngSeed : trainer = Trainer(rngSeed)
    /\ node = Node(2)
    /\ calls = 0
    /\ InitAside

\* train(config) is entered
TrainStart(iterations) ==
    /\ trainer.phase = "constructed"
    /\ trainer' = trainStart(trainer, iterations)
    /\ UNCHANGED <<game, state, thrown, returned, node, calls, aside>>

\* one pass of the loop of train(), the deck of its createInitialState()
\* in one of the model's orders
TrainIteration ==
    /\ trainer.phase = "training"
    /\ trainer.iteration < trainer.iterations
    /\ \E seed \in 1 .. MaxSeed :
          \E r \in {trainIteration(trainer, InitialState(game, seed))} :
             /\ trainer' = r.trainer
             /\ state' = r.terminalState
    /\ UNCHANGED <<game, thrown, returned, node, calls, aside>>

\* the loop is over and train() returns avgUtilities
TrainReturn ==
    /\ trainer.phase = "training"
    /\ trainer.iteration >= trainer.iterations
    /\ trainer' = trainReturn(trainer)
    /\ returned' = trainer.avgUtilities
    /\ UNCHANGED <<game, state, thrown, node, calls, aside>>

NextTrainer ==
    \/ \E iterations \in 0 .. MaxIterations : TrainStart(iterations)
    \/ TrainIteration
    \/ TrainReturn

SpecTrainer == InitTrainer /\ [][NextTrainer]_vars

\* ------------------------------------------------------------------------
\* Hands dealt from differently ordered decks
\* ------------------------------------------------------------------------
\* std::shuffle may leave any order of the deck.  Next to the orders of the
\* seeds, the model deals the eight hole cards of an order in the sequence
\* deal: as shuffled, with the two cards of every seat exchanged, and with
\* the hands of seats 0 and 1 exchanged.
DealOrders == {<<1, 2, 3, 4, 5, 6, 7, 8>>, <<2, 1, 4, 3, 6, 5, 8, 7>>,
               <<3, 4, 1, 2, 5, 6, 7, 8>>}

\* the deck whose k-th card from the tail is the deal[k]-th of cards
dealtAs(cards, deal) ==
    [i \in 1 .. Len(cards) |->
        IF Len(cards) + 1 - i <= Len(deal)
        THEN cards[Len(cards) + 1 - deal[Len(cards) + 1 - i]]
        ELSE cards[i]]

InitialStateDealt(g, seed, deal) ==
    [InitialState(g, seed) EXCEPT !.deck = dealtAs(NewDeck(seed), deal)]

InitDeals ==
    /\ game \in TrainerGames
    /\ \E seed \in 1 .. MaxSeed, deal \in DealOrders :
            state = InitialStateDealt(game, seed, deal)
    /\ thrown = NoException
    /\ returned = <<>>
    /\ trainer = Trainer(0)
    /\ node = Node(2)
    /\ calls = 0
    /\ InitAside

NextDeals == \E action \in Action : ApplyAction(action)

SpecDeals == InitDeals /\ [][NextDeals]_vars

\* ------------------------------------------------------------------------
\* A Deck under any sequence of calls
\* ------------------------------------------------------------------------
\* bound: the number of calls made on the deck
MaxDeckCalls == 4

\* the counts passed to dealCards: negative, none, the community and the
\* hole cards of a hand, the rest of the deck after them, and too many
DrawCounts == {-1, 0, COMMUNITY_CARDS, NUM_PLAYERS * HOLE_CARDS_PER_PLAYER,
               DECK_SIZE - NUM_PLAYERS * HOLE_CARDS_PER_PLAYER, 100}

InitDeck ==
    /\ game = DefaultGame
    /\ state = InitialState(DefaultGame, 1)
    /\ thrown = NoException
    /\ returned = <<>>
    /\ trainer = Trainer(0)
    /\ node = Node(2)
    /\ calls = 0
    /\ \E seed \in 1 .. MaxSeed : deck = Deck(seed)
    /\ drawn = <<>>
    /\ InitObjects(DefaultGame, 1)
    /\ fiveCardHand = NoHand
    /\ InitOthers

\* deck.dealCard()
DeckDealCard ==
    /\ calls < MaxDeckCalls
    /\ calls' = calls + 1
    /\ deck' = dealCard(deck)
    /\ thrown' = dealCardThrows(deck)
    /\ returned' = IF dealCardThrows(deck) # NoException THEN returned
                   ELSE dealtCards(deck.cards, 1)
    /\ drawn' = IF dealCardThrows(deck) # NoException THEN drawn
                ELSE drawn \o dealtCards(deck.cards, 1)
    /\ UNCHANGED <<game, state, trainer, node, original, clone, decks, fiveCardHand, others>>

\* deck.dealCards(count)
DeckDealCards(count) ==
    /\ calls < MaxDeckCalls
    /\ calls' = calls + 1
    /\ deck' = dealCards(deck, count)
    /\ thrown' = dealCardsThrows(deck, count)
    /\ returned' = IF dealCardsThrows(deck, count) # NoException THEN returned
                   ELSE dealtCards(deck.cards, count)
    /\ drawn' = IF dealCardsThrows(deck, count) # NoException THEN drawn
                ELSE drawn \o dealtCards(deck.cards, count)
    /\ UNCHANGED <<game, state, trainer, node, original, clone, decks, fiveCardHand, others>>

\* deck.reset()
DeckReset ==
    /\ calls < MaxDeckCalls
    /\ calls' = calls + 1
    /\ deck' = resetDeck(deck)
    /\ thrown' = NoException
    /\ drawn' = <<>>
    /\ UNCHANGED <<game, state, returned, trainer, node, original, clone, decks, fiveCardHand, others>>

NextDeck ==
    \/ DeckDealCard
    \/ \E count \in DrawCounts : DeckDealCards(count)
    \/ DeckReset

SpecDeck == InitDeck /\ [][NextDeck]_vars

\* ------------------------------------------------------------------------
\* A GameState and its clone
\* ------------------------------------------------------------------------
InitClone ==
    /\ game \in TrainerGames
    /\ state = InitialState(game, 1)
    /\ thrown = NoException
    /\ returned = <<>>
    /\ trainer = Trainer(0)
    /\ node = Node(2)
    /\ calls = 0
    /\ deck = Deck(1)
    /\ drawn = <<>>
    /\ \E seed \in 1 .. MaxSeed : InitObjects(game, seed)
    /\ fiveCardHand = NoHand
    /\ InitOthers

\* original.clone(): the clone held before is destroyed and the copy takes
\* its place
CloneState ==
    /\ \E r \in {copyGameState(original, decks, 2)} :
          /\ clone' = r.object
          /\ decks' = r.decks
    /\ thrown' = NoException
    /\ UNCHANGED <<game, state, returned, trainer, node, calls, deck, drawn, original, fiveCardHand, others>>

\* original.applyAction(action)
OriginalApplyAction(action) ==
    /\ \E r \in {applyActionOn(original, decks, action)} :
          /\ original' = r.object
          /\ decks' = r.decks
    /\ thrown' = applyActionThrows(deref(original, decks), action)
    /\ UNCHANGED <<game, state, returned, trainer, node, calls, deck, drawn, clone, fiveCardHand, others>>

\* clone.applyAction(action)
CloneApplyAction(action) ==
    /\ \E r \in {applyActionOn(clone, decks, action)} :
          /\ clone' = r.object
          /\ decks' = r.decks
    /\ thrown' = applyActionThrows(deref(clone, decks), action)
    /\ UNCHANGED <<game, state, returned, trainer, node, calls, deck, drawn, original, fiveCardHand, others>>

NextClone ==
    \/ CloneState
    \/ \E action \in Action : OriginalApplyAction(action)
    \/ \E action \in Action : CloneApplyAction(action)

SpecClone == InitClone /\ [][NextClone]_vars

\* ------------------------------------------------------------------------
\* Hands handed to the PokerEvaluator
\* ------------------------------------------------------------------------
\* the rank values the constructed hands are built from (the straights are
\* built from all the ranks)
HandRanks == {2, 3, 4, 5, 6, 10, 13, 14}

cardOf(rankValue, suit) == Card(Ranks[rankValue - 1], suit)

handOf(rankValues, suits) == [i \in 1 .. Len(rankValues) |-> cardOf(rankValues[i], suits[i])]

OneSuit == {<<u, u, u, u, u>> : u \in {"s", "h"}}

MixedSuits == <<"s", "h", "d", "c", "s">>

\* the five ranks of the straight that starts at low, the ace standing for 1
straightRanks(low) ==
    IF low = 1 THEN <<14, 2, 3, 4, 5>> ELSE [i \in 1 .. 5 |-> low + i - 1]

\* the sets of five ranks that are no straight
UnconnectedRanks ==
    {S \in SUBSET HandRanks :
        /\ Cardinality(S) = 5
        /\ \A low \in 1 .. 10 : S # {straightRanks(low)[i] : i \in 1 .. 5}}

Constructed(category, rankValues, suits) ==
    [category |-> category, cards |-> handOf(rankValues, suits)]

\* hands of each category, built as the category is defined
ConstructedHands ==
    {Constructed(STRAIGHT_FLUSH, straightRanks(low), suits) :
        <<low, suits>> \in (1 .. 10) \X OneSuit}
    \cup {Constructed(FOUR_OF_A_KIND, <<x[1], x[1], x[1], x[1], x[2]>>, MixedSuits) :
            x \in {y \in HandRanks \X HandRanks : y[1] # y[2]}}
    \cup {Constructed(FULL_HOUSE, <<x[1], x[1], x[1], x[2], x[2]>>, MixedSuits) :
            x \in {y \in HandRanks \X HandRanks : y[1] # y[2]}}
    \cup {Constructed(FLUSH, SetToSeq(x[1]), x[2]) : x \in UnconnectedRanks \X OneSuit}
    \cup {Constructed(STRAIGHT, straightRanks(low), MixedSuits) : low \in 1 .. 10}
    \cup {Constructed(THREE_OF_A_KIND, <<x[1], x[1], x[1], x[2], x[3]>>, MixedSuits) :
            x \in {y \in HandRanks \X HandRanks \X HandRanks :
                     y[1] # y[2] /\ y[1] # y[3] /\ y[2] < y[3]}}
    \cup {Constructed(TWO_PAIR, <<x[1], x[1], x[2], x[2], x[3]>>, MixedSuits) :
            x \in {y \in HandRanks \X HandRanks \X HandRanks :
                     y[1] < y[2] /\ y[3] # y[1] /\ y[3] # y[2]}}
    \cup {Constructed(PAIR, <<x[1], x[1]>> \o SetToSeq(x[2]), MixedSuits) :
            x \in {y \in HandRanks \X SUBSET HandRanks :
                     Cardinality(y[2]) = 3 /\ y[1] \notin y[2]}}
    \cup {Constructed(HIGH_CARD, SetToSeq(S), MixedSuits) : S \in UnconnectedRanks}

\* hands of the wrong size
MalformedHands ==
    {NoHand, [category |-> -1, cards |-> handOf(<<14, 13, 12, 11>>, MixedSuits)]}

InitEvaluator ==
    /\ game = DefaultGame
    /\ state = InitialState(DefaultGame, 1)
    /\ thrown = NoException
    /\ returned = <<>>
    /\ trainer = Trainer(0)
    /\ node = Node(2)
    /\ calls = 0
    /\ deck = Deck(1)
    /\ drawn = <<>>
    /\ InitObjects(DefaultGame, 1)
    /\ fiveCardHand \in ConstructedHands \cup MalformedHands
    /\ InitOthers

\* evaluator.evaluateFiveCardHand(hand)
EvaluateFiveCardHand ==
    /\ returned' = IF evaluateFiveCardHandThrows(fiveCardHand.cards) # NoException THEN returned
                   ELSE evaluateFiveCardHand(fiveCardHand.cards)
    /\ thrown' = evaluateFiveCardHandThrows(fiveCardHand.cards)
    /\ UNCHANGED <<game, state, trainer, node, calls, aside>>

NextEvaluator == EvaluateFiveCardHand

SpecEvaluator == InitEvaluator /\ [][NextEvaluator]_vars

\* ------------------------------------------------------------------------
\* Seven cards handed to the PokerEvaluator
\* ------------------------------------------------------------------------
\* seven cards in a row of the deck of a seed, from four places of it
DealtSevens ==
    {SubSeq(NewDeck(seed), k, k + 6) : <<seed, k>> \in (1 .. MaxSeed) \X {1, 8, 15, 22}}

sevenOf(rankValues, suits) == [i \in 1 .. 7 |-> cardOf(rankValues[i], suits[i])]

\* seven cards built to hold more than one hand: the hand of
\* testSevenCardEvaluation, two sets of three, three pairs, a straight flush
\* under a higher flush, the wheel, four of a kind with a pair, a flush with a
\* straight, seven unconnected cards
ConstructedSevens ==
    {sevenOf(<<14, 14, 14, 13, 12, 11, 10>>, <<"s", "h", "d", "c", "s", "h", "c">>),
     sevenOf(<<14, 14, 14, 13, 13, 13, 12>>, <<"s", "h", "d", "c", "s", "h", "c">>),
     sevenOf(<<14, 14, 13, 13, 12, 12, 11>>, <<"s", "h", "d", "c", "s", "h", "c">>),
     sevenOf(<<9, 8, 7, 6, 5, 14, 2>>, <<"h", "h", "h", "h", "h", "h", "d">>),
     sevenOf(<<14, 2, 3, 4, 5, 9, 9>>, <<"s", "h", "d", "c", "s", "h", "c">>),
     sevenOf(<<7, 7, 7, 7, 14, 14, 2>>, <<"s", "h", "d", "c", "s", "h", "c">>),
     sevenOf(<<2, 9, 4, 13, 11, 5, 6>>, <<"s", "s", "d", "s", "s", "s", "c">>),
     sevenOf(<<2, 9, 4, 13, 11, 7, 6>>, <<"s", "h", "d", "c", "s", "h", "c">>)}

\* the orders in which the seven cards are supplied
CardOrders ==
    {<<1, 2, 3, 4, 5, 6, 7>>, <<7, 6, 5, 4, 3, 2, 1>>, <<2, 1, 3, 4, 5, 6, 7>>,
     <<3, 4, 5, 6, 7, 1, 2>>, <<1, 7, 2, 6, 3, 5, 4>>, <<6, 3, 7, 1, 4, 2, 5>>}

\* the first holeCount of the cards as hole cards, the next communityCount
\* as community cards
suppliedAs(cards, order, holeCount, communityCount) ==
    [holeCards |-> [i \in 1 .. holeCount |-> cards[order[i]]],
     communityCards |-> [i \in 1 .. communityCount |-> cards[order[holeCount + i]]]]

RightCounts == (DealtSevens \cup ConstructedSevens) \X CardOrders \X {<<2, 5>>}

WrongCounts ==
    ConstructedSevens \X {<<1, 2, 3, 4, 5, 6, 7>>}
        \X {<<1, 5>>, <<3, 4>>, <<0, 5>>, <<2, 4>>, <<2, 0>>, <<1, 6>>, <<0, 0>>}

InitSevenCards ==
    /\ game = DefaultGame
    /\ state = InitialState(DefaultGame, 1)
    /\ thrown = NoException
    /\ returned = <<>>
    /\ trainer = Trainer(0)
    /\ node = Node(2)
    /\ calls = 0
    /\ deck = Deck(1)
    /\ drawn = <<>>
    /\ InitObjects(DefaultGame, 1)
    /\ fiveCardHand = NoHand
    /\ \E x \in RightCounts \cup WrongCounts :
          sevenCards = suppliedAs(x[1], x[2], x[3][1], x[3][2])
    /\ visualization = NoVisualization
    /\ strategyFile = NoFile
    /\ walk = NoWalk

\* evaluator.evaluateHand(holeCards, communityCards)
EvaluateHand ==
    /\ returned' = IF evaluateHandThrows(sevenCards.holeCards, sevenCards.communityCards) # NoException
                   THEN returned
                   ELSE evaluateHand(sevenCards.holeCards, sevenCards.communityCards)
    /\ thrown' = evaluateHandThrows(sevenCards.holeCards, sevenCards.communityCards)
    /\ UNCHANGED <<game, state, trainer, node, calls, aside>>

NextSevenCards == EvaluateHand

SpecSevenCards == InitSevenCards /\ [][NextSevenCards]_vars

\* ------------------------------------------------------------------------
\* Strategy files
\* ------------------------------------------------------------------------
\* the longest file of the model, in lines
MaxLines == 3

\* the lines the files of the model are made of
FileLines ==
    {EmptyLine, CommentLine, OtherLine,
     InfoSetLine("AKs", Number(Rat(2, 1))), InfoSetLine("QQ", NoVisits),
     InfoSetLine("72o", NotANumber),
     StrategyLine(<<Number(Rat(1, 4)), Number(Rat(3, 4))>>),
     StrategyLine(<<Number(Rat(1, 2)), NotANumber>>),
     StrategyLine(<<>>), BareStrategyLine}

RECURSIVE filesOfLength(_)
filesOfLength(n) ==
    IF n = 0 THEN {<<>>}
    ELSE {Append(f, l) : <<f, l>> \in filesOfLength(n - 1) \X FileLines}

StrategyFiles ==
    {NoFile} \cup {[exists |-> TRUE, lines |-> f] : f \in UNION {filesOfLength(n) : n \in 0 .. MaxLines}}

\* a trainer that has learned nothing, and one with a node in its map
LoadingTrainers ==
    {Trainer(0), [Trainer(0) EXCEPT !.nodeMap = putNode(EmptyNodeMap, "JJ", Node(2))]}

InitLoad ==
    /\ game = DefaultGame
    /\ state = InitialState(DefaultGame, 1)
    /\ thrown = NoException
    /\ returned = <<>>
    /\ trainer \in LoadingTrainers
    /\ node = Node(2)
    /\ calls = 0
    /\ deck = Deck(1)
    /\ drawn = <<>>
    /\ InitObjects(DefaultGame, 1)
    /\ fiveCardHand = NoHand
    /\ sevenCards = NoCards
    /\ visualization = NoVisualization
    /\ strategyFile \in StrategyFiles
    /\ walk = NoWalk

\* trainer.loadStrategies(filename)
LoadStrategies ==
    /\ calls = 0
    /\ calls' = 1
    /\ \E r \in {loadStrategies(trainer, strategyFile)} :
          /\ trainer' = [trainer EXCEPT !.nodeMap = r.nodeMap]
          /\ returned' = r.returned
          /\ thrown' = r.thrown
    /\ UNCHANGED <<game, state, node, aside>>

NextLoad == LoadStrategies

SpecLoad == InitLoad /\ [][NextLoad]_vars

\* ------------------------------------------------------------------------
\* The hand-off of data points to the RealtimeVisualizer
\* ------------------------------------------------------------------------
\* the largest config.iterations of the model
MaxHandOffs == 3

\* the configurations: realtimeConfig.enabled or not, updateInterval and
\* maxDataPoints small enough for the queue to overflow
RealtimeConfigs == {RealtimeConfig(e, u, m) : <<e, u, m>> \in BOOLEAN \X {1, 2} \X {1, 2}}

InitHandOff ==
    /\ game = DefaultGame
    /\ state = InitialState(DefaultGame, 1)
    /\ thrown = NoException
    /\ returned = <<>>
    /\ trainer = Trainer(0)
    /\ node = Node(2)
    /\ calls = 0
    /\ deck = Deck(1)
    /\ drawn = <<>>
    /\ InitObjects(DefaultGame, 1)
    /\ fiveCardHand = NoHand
    /\ sevenCards = NoCards
    /\ \E config \in RealtimeConfigs, iterations \in 1 .. MaxHandOffs :
          visualization = Visualization(config, iterations)
    /\ strategyFile = NoFile
    /\ walk = NoWalk

\* every step of the model leaves all but the visualizer and its threads
VisualizationStep(v) ==
    /\ visualization' = v
    /\ UNCHANGED <<game, state, thrown, returned, trainer, node, calls, deck, drawn,
                   original, clone, decks, fiveCardHand, sevenCards, strategyFile, walk>>

\* --- the thread that runs train() ---
TrainEnter ==
    /\ visualization.train = "entry"
    /\ VisualizationStep(trainEntered(visualization))

TrainIterate ==
    /\ visualization.train = "iterate"
    /\ VisualizationStep(iterated(visualization))

TrainHandOff ==
    /\ visualization.train = "handOff"
    /\ VisualizationStep(handOffChecked(visualization))

\* addDataPoint gets dataMutex_
AddDataPoint ==
    /\ visualization.train = "lockData"
    /\ visualization.dataMutex_ = Free
    /\ VisualizationStep(dataPointAdded(visualization))

AddDataPointNotify ==
    /\ visualization.train = "notify"
    /\ VisualizationStep(notified(visualization))

\* broadcastDataToClients gets latestDataMutex_
BroadcastDataToClients ==
    /\ visualization.train = "lockLatest"
    /\ visualization.latestDataMutex_ = Free
    /\ VisualizationStep(broadcast(visualization))

\* --- the visualization thread ---
VisualizationLock ==
    /\ visualization.visualizationThread_ = "top"
    /\ ~visualization.shouldStop_
    /\ visualization.dataMutex_ = Free
    /\ VisualizationStep(visualizationLocked(visualization))

VisualizationWait ==
    /\ visualization.visualizationThread_ = "locked"
    /\ VisualizationStep(visualizationWaited(visualization))

\* the wait returns, after notify_one() or spuriously, and relocks
VisualizationWake ==
    /\ visualization.visualizationThread_ \in {"waiting", "notified"}
    /\ visualization.dataMutex_ = Free
    /\ VisualizationStep(visualizationLocked(visualization))

\* the sleep of 50 ms is over
VisualizationSlept ==
    /\ visualization.visualizationThread_ = "sleeping"
    /\ VisualizationStep([visualization EXCEPT !.visualizationThread_ = "top"])

\* --- the web server thread and its clients ---
WebServerSetUp(succeeded) ==
    /\ visualization.webServerThread_ = "setup"
    /\ VisualizationStep(webServerSetUp(visualization, succeeded))

\* a client connects: accept() returns and handleWebRequest waits in read()
WebAccept ==
    /\ visualization.webServerThread_ = "select"
    /\ visualization.webServerRunning_ /\ ~visualization.shouldStop_
    /\ VisualizationStep([visualization EXCEPT !.webServerThread_ = "reading"])

\* the client sends its request
WebRead(request) ==
    /\ visualization.webServerThread_ = "reading"
    /\ VisualizationStep(requestRead(visualization, request))

WebLock ==
    /\ visualization.webServerThread_ = "lockLatest"
    /\ visualization.latestDataMutex_ = Free
    /\ VisualizationStep(webLocked(visualization))

WebBuildResponse ==
    /\ visualization.webServerThread_ = "building"
    /\ VisualizationStep(responseBuilt(visualization))

\* the client takes the response: send() returns, the socket is closed
WebSend ==
    /\ visualization.webServerThread_ = "sending"
    /\ VisualizationStep([visualization EXCEPT !.webServerThread_ = "select"])

TrainerSteps == TrainEnter \/ TrainIterate \/ TrainHandOff \/ AddDataPointNotify

NextHandOff ==
    \/ TrainEnter
    \/ TrainIterate
    \/ TrainHandOff
    \/ AddDataPoint
    \/ AddDataPointNotify
    \/ BroadcastDataToClients
    \/ VisualizationLock
    \/ VisualizationWait
    \/ VisualizationWake
    \/ VisualizationSlept
    \/ \E succeeded \in BOOLEAN : WebServerSetUp(succeeded)
    \/ WebAccept
    \/ \E request \in {"GET /data", "GET /"} : WebRead(request)
    \/ WebLock
    \/ WebBuildResponse
    \/ WebSend

SpecHandOff == InitHandOff /\ [][NextHandOff]_vars

\* The thread of train() runs.  A thread that holds a mutex runs to the end
\* of its block.  The two mutexes are free again and again for far longer
\* than train() needs them (the visualization thread sleeps 50 ms outside
\* its block, the web server thread waits for its clients outside its block),
\* so train() gets each of them.  Nothing is assumed of the clients, nor of
\* the visualization thread and the web server thread outside their blocks.
SpecHandOffLive ==
    /\ SpecHandOff
    /\ WF_vars(TrainerSteps)
    /\ SF_vars(AddDataPoint)
    /\ SF_vars(BroadcastDataToClients)
    /\ WF_vars(VisualizationWait)
    /\ WF_vars(WebBuildResponse)

\* ------------------------------------------------------------------------
\* Properties of one hand of play
\* ------------------------------------------------------------------------
\* every side pot splits evenly in whole units (the model's arithmetic is exact)
SharesExact ==
    \A k \in 1 .. Len(state.sidePots) : state.sidePots[k].amount % 12 = 0

sidePotTotal(s) == SumSeq([k \in 1 .. Len(s.sidePots) |-> s.sidePots[k].amount])

\* rake + jackpotFee - jackpotPayout of a hand, the payout being the
\* configured percentage of the pot
houseTake(g, s) ==
    g.gameParams.rake_per_hand + g.gameParams.jackpot_fee_per_hand
        - ((s.pot * g.gameParams.jackpot_payout_percentage) \div 100)

\* C1: in every terminal state the four payoffs of getReturns() sum to
\* -(rake + jackpotFee - jackpotPayout), which is zero when these are zero.
C1_ReturnsSumToMinusHouseTake ==
    state.gameOver => SumSeq(getReturns(state)) = -houseTake(game, state)

\* C2: at termination the amounts of the side pots sum to exactly the pot.
C2_SidePotsSumToPot ==
    state.gameOver => sidePotTotal(state) = state.pot

nonFolded(s) == {i \in Seats : ~s.folded[i]}

dealt(s) == s.holeCards # <<>>

\* C3: after DEAL a state is terminal if and only if at most one seat is
\* non-folded or every non-folded seat is in the all-in set.
C3_TerminalIffEndCondition ==
    dealt(state) =>
        (state.gameOver <=>
            (Cardinality(nonFolded(state)) <= 1
                \/ nonFolded(state) \subseteq state.allInPlayers))

\* a hand that ended with two or more seats all-in and none of them pending
C3_Witness ==
    /\ state.gameOver
    /\ Cardinality(nonFolded(state)) >= 2
    /\ nonFolded(state) \subseteq state.allInPlayers

\* a hand still running after two decisions, with two seats yet to act
C3_WitnessRunning ==
    /\ dealt(state) /\ ~state.gameOver
    /\ state.folded[2] /\ 3 \in state.allInPlayers

blindsAre(g, tenthsSmall, tenthsBig) ==
    /\ 10 * g.smallBlind = tenthsSmall * Chip
    /\ 10 * g.bigBlind = tenthsBig * Chip

isDecisionNode(s) == ~isChanceNode(s) /\ ~s.gameOver

inLegalActions(s, action) ==
    \E i \in 1 .. Len(getLegalActions(s)) : getLegalActions(s)[i] = action

\* the three kinds of misuse of applyAction
misuse(s, action) ==
    \/ isChanceNode(s) /\ action # DEAL
    \/ isDecisionNode(s) /\ action = DEAL
    \/ s.gameOver

\* C5: applyAction with an action outside the legal-action set (not DEAL at
\* a chance node, DEAL at a decision node, anything on a terminal state)
\* raises an error and leaves the state unchanged; getReturns on a
\* non-terminal state raises an error and returns no payoffs.
C5_MisuseRejected ==
    [][ /\ \A action \in Action :
              /\ misuse(state, action) <=> ~inLegalActions(state, action)
              /\ (ApplyAction(action) /\ misuse(state, action)) =>
                    (thrown' # NoException /\ state' = state)
        /\ (GetReturns /\ ~state.gameOver) =>
              /\ thrown' # NoException
              /\ returned' = returned
              /\ state' = state
      ]_vars

\* a rejected call of each kind has happened
C5_WitnessChance == isChanceNode(state) /\ thrown = "Only DEAL action allowed at chance node"

C5_WitnessDecision == isDecisionNode(state) /\ thrown = "Illegal action"

C5_WitnessTerminal == state.gameOver /\ thrown = "Cannot apply action to terminal state"

C5_WitnessReturns ==
    ~state.gameOver /\ thrown = "Cannot get returns for non-terminal state"

C5_Witness ==
    /\ dealt(state) /\ ~state.gameOver
    /\ state.folded[2]
    /\ thrown = "Illegal action"

\* C6: a fresh state is a chance node whose only legal action is DEAL;
\* DEAL issues 8 hole cards, 2 per seat, makes seat 2 the acting seat with
\* legal actions FOLD and ALL_IN, and changes neither pot, stacks nor any
\* fold or all-in status.
C6_FreshStateAndDeal ==
    /\ [](isChanceNode(state) =>
            /\ getLegalActions(state) = <<DEAL>>
            /\ state.pot = game.smallBlind + game.bigBlind
            /\ nonFolded(state) = Seats /\ state.allInPlayers = {})
    /\ [][ (ApplyAction(DEAL) /\ isChanceNode(state)) =>
              /\ Len(state'.holeCards) = 8
              /\ \A p \in Seats : Len(holeCardsOf(state', p)) = 2
              /\ \A i, j \in 1 .. Len(state'.holeCards) :
                    state'.holeCards[i] = state'.holeCards[j] => i = j
              /\ Len(state'.deck) = DECK_SIZE - 8
              /\ getCurrentPlayer(state') = 2
              /\ ~state'.gameOver /\ ~isChanceNode(state')
              /\ Len(getLegalActions(state')) = 2
              /\ inLegalActions(state', FOLD) /\ inLegalActions(state', ALL_IN)
              /\ state'.pot = state.pot
              /\ state'.playerStacks = state.playerStacks
              /\ state'.folded = state.folded
              /\ state'.allInPlayers = state.allInPlayers
         ]_vars

\* the state right after DEAL
C6_Witness ==
    /\ dealt(state) /\ ~state.gameOver
    /\ state.nextPlayer = 2
    /\ nonFolded(state) = Seats /\ state.allInPlayers = {}
    /\ thrown = NoException

\* C7: at a decision node FOLD marks only the acting seat folded and moves
\* no chips; ALL_IN moves the acting seat's whole stack into the pot, records
\* the seat as all-in and changes no other seat's stack or status.
C7_FoldAndAllInEffects ==
    [][ /\ (ApplyAction(FOLD) /\ isDecisionNode(state)) =>
              /\ state'.folded = [state.folded EXCEPT ![state.nextPlayer] = TRUE]
              /\ ~state.folded[state.nextPlayer]
              /\ state'.pot = state.pot
              /\ state'.playerStacks = state.playerStacks
              /\ state'.allInPlayers = state.allInPlayers
        /\ (ApplyAction(ALL_IN) /\ isDecisionNode(state)) =>
              /\ state'.playerStacks[state.nextPlayer] = 0
              /\ state'.pot = state.pot + state.playerStacks[state.nextPlayer]
              /\ state'.allInPlayers = state.allInPlayers \cup {state.nextPlayer}
              /\ state.nextPlayer \notin state.allInPlayers
              /\ \A i \in Seats \ {state.nextPlayer} :
                    state'.playerStacks[i] = state.playerStacks[i]
              /\ state'.folded = state.folded
      ]_vars

\* a FOLD and an ALL_IN that moved chips have both been applied
C7_Witness ==
    /\ state.folded[2]
    /\ 3 \in state.allInPlayers
    /\ state.playerStacks[3] = 0
    /\ state.pot = game.smallBlind + game.bigBlind + state.initialStacks[3]

defaultStacks(g) == \A i \in Seats : g.initialStacks[i] = STARTING_STACK_BB * g.bigBlind

\* C8: when all four seats go ALL_IN with stacks of 8 big blinds each, the
\* state is terminal with all four seats all-in, there is a single side pot
\* whose eligible set is all four seats, 5 community cards are dealt and
\* getReturns() sums to zero.
C8_AllFourAllIn ==
    (defaultStacks(game) /\ state.allInPlayers = Seats) =>
        /\ state.gameOver
        /\ Len(state.sidePots) = 1
        /\ state.sidePots[1].contributors = <<0, 1, 2, 3>>
        /\ state.sidePots[1].amount = state.pot
        /\ Len(state.communityCards) = COMMUNITY_CARDS
        /\ SumSeq(getReturns(state)) = 0

C8_Witness ==
    /\ defaultStacks(game) /\ blindsAre(game, 4, 10)
    /\ state.allInPlayers = Seats
    /\ state.pot = NUM_PLAYERS * STARTING_STACK_BB * Chip

\* the terminal states a hand can reach from s by DEAL and then any
\* sequence of FOLD and ALL_IN
RECURSIVE TerminalStatesFrom(_)
TerminalStatesFrom(s) ==
    IF s.gameOver THEN {s}
    ELSE IF isChanceNode(s) THEN TerminalStatesFrom(applyAction(s, DEAL))
    ELSE TerminalStatesFrom(applyAction(s, FOLD))
            \cup TerminalStatesFrom(applyAction(s, ALL_IN))

DefaultTerminalStates ==
    UNION {TerminalStatesFrom(InitialState(DefaultGame, seed)) : seed \in 1 .. MaxSeed}

DefaultHandsZeroSum == \A s \in DefaultTerminalStates : SumSeq(getReturns(s)) = 0

\* C9: at the default table the payoffs of every terminal state sum to
\* zero, and so do the utilities train() has accumulated and the running
\* averages it keeps and returns, after every iteration.
C9_TrainingZeroSum ==
    game = DefaultGame =>
        /\ DefaultHandsZeroSum
        /\ RSum(trainer.totalUtilities) = RZero
        /\ RSum(trainer.avgUtilities) = RZero
        /\ trainer.phase = "returned" => RSum(returned) = RZero

\* train() has returned after two or more iterations that moved chips
C9_Witness ==
    /\ game = DefaultGame
    /\ trainer.phase = "returned"
    /\ trainer.iteration >= 2
    /\ \E p \in 1 .. NUM_PLAYERS : returned[p] # RZero
    /\ state.gameOver /\ Cardinality(nonFolded(state)) >= 2

\* v has one entry per action of the node, each in [0, 1], summing to 1
isDistribution(v, n) ==
    /\ Len(v) = Len(n.regretSum)
    /\ \A i \in 1 .. Len(v) : ~RLess(v[i], RZero) /\ ~RLess(ROne, v[i])
    /\ RSum(v) = ROne

isUniform(v) == \A i \in 1 .. Len(v) : v[i] = Rat(1, Len(v))

positiveRegretTotal(n) ==
    RSum([i \in 1 .. Len(n.regretSum) |-> RMax(n.regretSum[i], RZero)])

\* C10: after any history of updateRegret and getStrategy calls,
\* getStrategy(x) and getAverageStrategy() each return one entry per action,
\* every entry in [0, 1], summing to 1; they return the uniform distribution
\* when the positive regrets (the strategy sums) total zero.
C10_StrategiesAreDistributions ==
    /\ \A x \in WeightChoices :
          /\ isDistribution(getStrategy(node, x).strategy_, node)
          /\ positiveRegretTotal(node) = RZero => isUniform(getStrategy(node, x).strategy_)
    /\ isDistribution(getAverageStrategy(node), node)
    /\ RSum(node.strategySum) = RZero => isUniform(getAverageStrategy(node))

\* every regret of a visited node is negative
C10_Witness ==
    /\ Len(node.regretSum) >= 2
    /\ \A i \in 1 .. Len(node.regretSum) : RLess(node.regretSum[i], RZero)
    /\ node.visitCount > 0
    /\ RLess(RZero, RSum(node.strategySum))
    /\ isUniform(returned)

\* ------------------------------------------------------------------------
\* Information sets
\* ------------------------------------------------------------------------
\* the seats whose status a player may observe
observedSeats(player) == IF player <= 1 THEN Seats \ {player} ELSE 0 .. (player - 1)

\* the class of two hole cards: the higher and the lower rank value and
\* whether the cards are of one suit
holeCardClass(card1, card2) ==
    <<Max({getRankValue(card1), getRankValue(card2)}),
      Min({getRankValue(card1), getRankValue(card2)}),
      card1.suit = card2.suit>>

\* what a player observes at a state: its id, the status of the seats it may
\* observe, the class of its own hole cards (<<>> before the deal), the pot
observableContext(s, player) ==
    <<player,
      [p \in observedSeats(player) |-> playerStatus(s, p)],
      IF Len(s.holeCards) >= (player + 1) * 2
      THEN holeCardClass(s.holeCards[player * 2 + 1], s.holeCards[player * 2 + 2])
      ELSE <<>>,
      s.pot>>

\* every state of a hand from s on
RECURSIVE StatesFrom(_)
StatesFrom(s) ==
    IF s.gameOver THEN {s}
    ELSE IF isChanceNode(s) THEN {s} \cup StatesFrom(applyAction(s, DEAL))
    ELSE {s} \cup StatesFrom(applyAction(s, FOLD)) \cup StatesFrom(applyAction(s, ALL_IN))

DealtStates ==
    UNION {StatesFrom(InitialStateDealt(g, seed, deal)) :
            <<g, seed, deal>> \in TrainerGames \X (1 .. MaxSeed) \X DealOrders}

\* the context and the key of every player at every state of these hands
DealtKeys ==
    {<<observableContext(t, q), getInformationSet(t, q)>> :
        <<t, q>> \in DealtStates \X Seats}

\* C11: the key of a player at the state is the key of every player and state
\* with the same observable context (player, observed statuses, class of the
\* own hole cards, pot), whatever the deck order and the other hole cards,
\* and it is the key of no other player.
C11_KeyIsFunctionOfContext ==
    \A p \in Seats : \A e \in DealtKeys :
        /\ e[1] = observableContext(state, p) => e[2] = getInformationSet(state, p)
        /\ e[1][1] # p => e[2] # getInformationSet(state, p)

\* a decision point of seat 3 whose key is also the key of seat 3 in a hand
\* dealt from another deck order, where seat 3 holds the same class and the
\* hole cards of seat 0 differ
C11_Witness ==
    /\ isDecisionNode(state)
    /\ getCurrentPlayer(state) = 3
    /\ \E t \in DealtStates :
        /\ t.holeCards # <<>>
        /\ holeCardsOf(t, 0) # holeCardsOf(state, 0)
        /\ observableContext(t, 3) = observableContext(state, 3)
        /\ getInformationSet(t, 3) = getInformationSet(state, 3)


\* ------------------------------------------------------------------------
\* Deck
\* ------------------------------------------------------------------------
cardSet(cards) == {cards[i] : i \in 1 .. Len(cards)}

StandardCards ==
    {Card(Ranks[r], Suits[u]) : <<r, u>> \in (1 .. Len(Ranks)) \X (1 .. Len(Suits))}

\* the cards in the deck and the cards it has returned are the 52 cards,
\* each once
eachCardOnce(d, returnedCards) ==
    /\ cardSet(d.cards) \cup cardSet(returnedCards) = StandardCards
    /\ Len(d.cards) + Len(returnedCards) = DECK_SIZE
    /\ Cardinality(StandardCards) = DECK_SIZE

\* the call returned the last count cards of the deck d, the last one
\* first, and left the cards before them
drewFromTail(d, count) ==
    /\ thrown' = NoException
    /\ Len(returned') = count
    /\ \A i \in 1 .. count : returned'[i] = d.cards[Len(d.cards) + 1 - i]
    /\ \A i \in 1 .. count : \A j \in 1 .. Len(drawn) : returned'[i] # drawn[j]
    /\ Len(deck'.cards) = Len(d.cards) - count
    /\ \A i \in 1 .. Len(deck'.cards) : deck'.cards[i] = d.cards[i]
    /\ deck'.rng = d.rng

\* the call failed and removed no card
drewNothing ==
    /\ thrown' # NoException
    /\ deck' = deck
    /\ drawn' = drawn
    /\ returned' = returned

\* the 8 hole cards and the 5 community cards of every finished hand are 13
\* different cards, and the other 39 are left in its deck
HandsDealDistinctCards ==
    \A s \in DealtStates :
        s.gameOver =>
            /\ Len(s.holeCards) = NUM_PLAYERS * HOLE_CARDS_PER_PLAYER
            /\ Len(s.communityCards) = COMMUNITY_CARDS
            /\ Cardinality(cardSet(s.holeCards) \cup cardSet(s.communityCards)) = 13
            /\ eachCardOnce([cards |-> s.deck], s.holeCards \o s.communityCards)

\* C12: a deck and the cards it has returned since it was built or reset are
\* the 52 cards, each once; a draw returns the cards at the tail and
\* shortens the deck by their number, and none of them was returned before;
\* a draw of more cards than remain (or of a negative number) fails and
\* removes nothing; reset() leaves 52 cards; the 13 cards of a hand differ.
C12_DeckDealsEachCardOnce ==
    [][ /\ eachCardOnce(deck, drawn)
        /\ eachCardOnce(deck', drawn')
        /\ HandsDealDistinctCards
        /\ DeckDealCard =>
              IF Len(deck.cards) >= 1 THEN drewFromTail(deck, 1) ELSE drewNothing
        /\ \A count \in DrawCounts :
              DeckDealCards(count) =>
                 IF count >= 0 /\ count <= Len(deck.cards)
                 THEN drewFromTail(deck, count) ELSE drewNothing
        /\ DeckReset =>
              /\ Len(deck'.cards) = DECK_SIZE
              /\ cardSet(deck'.cards) = StandardCards
              /\ drawn' = <<>>
      ]_vars

\* after a reset the deck has dealt the 13 cards of a hand, and a draw of
\* more cards than the 39 it holds has failed
C12_Witness ==
    /\ deck.rng > MaxSeed + 1
    /\ Len(drawn) = 13
    /\ Len(deck.cards) = DECK_SIZE - 13
    /\ thrown = "Not enough cards in deck"


\* ------------------------------------------------------------------------
\* Clones
\* ------------------------------------------------------------------------
\* the two states agree in every observable field
sameObservables(s1, s2) ==
    /\ getCurrentPlayer(s1) = getCurrentPlayer(s2)
    /\ isTerminal(s1) = isTerminal(s2)
    /\ s1.pot = s2.pot
    /\ s1.initialStacks = s2.initialStacks
    /\ s1.playerStacks = s2.playerStacks
    /\ s1.folded = s2.folded
    /\ s1.allInPlayers = s2.allInPlayers
    /\ s1.holeCards = s2.holeCards
    /\ s1.communityCards = s2.communityCards
    /\ s1.sidePots = s2.sidePots
    /\ s1.deck = s2.deck
    /\ getLegalActions(s1) = getLegalActions(s2)

\* C13: a clone agrees with the original in every observable field, the
\* order of the remaining deck included, and an action applied to one of
\* the two leaves the other as it was.
C13_CloneIsEqualAndApart ==
    [][ /\ CloneState =>
              /\ sameObservables(deref(clone', decks'), deref(original, decks))
              /\ deref(original', decks') = deref(original, decks)
        /\ \A action \in Action :
              /\ OriginalApplyAction(action) =>
                    deref(clone', decks') = deref(clone, decks)
              /\ CloneApplyAction(action) =>
                    deref(original', decks') = deref(original, decks)
      ]_vars

\* the clone was made after the deal and an all-in, and the hand of the
\* original has ended since, with the community cards dealt from its deck,
\* while the clone is where it was made
C13_Witness ==
    /\ original.gameOver
    /\ ~clone.gameOver
    /\ clone.holeCards = original.holeCards /\ clone.holeCards # <<>>
    /\ clone.allInPlayers # {}
    /\ Len(decks[original.deck]) < Len(decks[clone.deck])


\* ------------------------------------------------------------------------
\* PokerEvaluator
\* ------------------------------------------------------------------------
\* the categories from the lowest to the highest
CategoryOrder ==
    <<HIGH_CARD, PAIR, TWO_PAIR, THREE_OF_A_KIND, STRAIGHT, FLUSH, FULL_HOUSE,
      FOUR_OF_A_KIND, STRAIGHT_FLUSH>>

categoryPlace(category) == CHOOSE i \in 1 .. Len(CategoryOrder) : CategoryOrder[i] = category

\* the place of the category and the score of every constructed hand
ConstructedScores ==
    {<<categoryPlace(h.category), evaluateFiveCardHand(h.cards)>> : h \in ConstructedHands}

\* the constructed hand of the state has been evaluated
handEvaluated == fiveCardHand.category >= 0 /\ returned # <<>>

\* the score beats every constructed hand of a category below the place
beatsLowerCategories(score, place) ==
    \A e \in ConstructedScores :
        e[1] < place => compareHands(score, e[2]) > 0 /\ compareHands(e[2], score) < 0

\* C14: a constructed hand of each of the nine categories is given its own
\* category, and its score beats the score of every constructed hand of a
\* lower category (and loses to none of them).
C14_CategoriesAssignedAndOrdered ==
    /\ \A i \in 1 .. Len(CategoryOrder) :
            \E h \in ConstructedHands : h.category = CategoryOrder[i]
    /\ handEvaluated =>
        /\ returned[1] = fiveCardHand.category
        /\ beatsLowerCategories(returned, categoryPlace(fiveCardHand.category))

\* a flush has been evaluated
C14_Witness ==
    /\ handEvaluated
    /\ fiveCardHand.category = FLUSH
    /\ thrown = NoException

\* ------------------------------------------------------------------------
\* C15
\* ------------------------------------------------------------------------
\* the rank values of A-2-3-4-5
wheelRanks == {2, 3, 4, 5, 14}

\* the hand of the state is A-2-3-4-5 in some order
wheelEvaluated == handEvaluated /\ rankSet(fiveCardHand.cards) = wheelRanks

\* the scores of the constructed straights (or straight flushes) that are
\* not the wheel
otherStraightScores(category) ==
    {evaluateFiveCardHand(h.cards) :
        h \in {g \in ConstructedHands :
                 g.category = category /\ rankSet(g.cards) # wheelRanks}}

\* C15: the wheel, as a straight and as a straight flush, is scored with
\* high card 5, and so it loses to every other straight of its category,
\* 10-J-Q-K-A among them.
C15_WheelIsLowestStraight ==
    /\ Cardinality(otherStraightScores(STRAIGHT)) = 9
    /\ <<STRAIGHT, 14>> \in otherStraightScores(STRAIGHT)
    /\ wheelEvaluated =>
        /\ returned = <<fiveCardHand.category, 5>>
        /\ \A score \in otherStraightScores(fiveCardHand.category) :
              compareHands(returned, score) < 0 /\ compareHands(score, returned) > 0

\* the wheel in mixed suits has been evaluated
C15_Witness ==
    /\ wheelEvaluated
    /\ fiveCardHand.category = STRAIGHT
    /\ thrown = NoException

\* ------------------------------------------------------------------------
\* C16
\* ------------------------------------------------------------------------
\* the seven cards of the state, as a set
suppliedCards ==
    {sevenCards.holeCards[i] : i \in 1 .. Len(sevenCards.holeCards)}
    \cup {sevenCards.communityCards[i] : i \in 1 .. Len(sevenCards.communityCards)}

fiveCardSubsets(S) == {T \in SUBSET S : Cardinality(T) = 5}

\* the cards of T in the order of the standard deck
inDeckOrder(T) == SelectSeq(createStandardDeck, LAMBDA c : c \in T)

\* the scores of the five-card subsets of the set S
subsetScores(S) == {evaluateFiveCardHand(inDeckOrder(T)) : T \in fiveCardSubsets(S)}

\* a comes before b in the lexicographic order of sequences
RECURSIVE lexLess(_, _)
lexLess(a, b) ==
    IF b = <<>> THEN FALSE
    ELSE IF a = <<>> THEN TRUE
    ELSE IF a[1] # b[1] THEN a[1] < b[1]
    ELSE lexLess(Tail(a), Tail(b))

rightCounts ==
    /\ Len(sevenCards.holeCards) = 2
    /\ Len(sevenCards.communityCards) = 5

\* evaluateHand has been called on the cards of the state
sevenEvaluated == sevenCards # NoCards /\ (returned # <<>> \/ thrown # NoException)

onlyRegretSumTouched ==
    /\ node'.strategy_ = node.strategy_
    /\ node'.strategySum = node.strategySum
    /\ node'.visitCount = node.visitCount

\* what a step of getStrategy(realizationWeight) does to the accumulators
getStrategyFrame(realizationWeight) ==
    /\ \A a \in 1 .. Len(node.strategySum) :
          node'.strategySum[a] =
              RAdd(node.strategySum[a], RMul(realizationWeight, returned'[a]))
    /\ returned' = node'.strategy_
    /\ node'.visitCount = node.visitCount + 1
    /\ node'.regretSum = node.regretSum

\* what a step of updateRegret(action, regret) does, action counted from 0
updateRegretFrame(action, regret) ==
    IF action \in 0 .. Len(node.regretSum) - 1
    THEN /\ thrown' = NoException
         /\ node'.regretSum[action + 1] = RAdd(node.regretSum[action + 1], regret)
         /\ \A a \in 1 .. Len(node.regretSum) :
               a # action + 1 => node'.regretSum[a] = node.regretSum[a]
         /\ onlyRegretSumTouched
    ELSE /\ thrown' = "Invalid action index"
         /\ node' = node

\* C20: getStrategy(w) adds w x strategy[a] to strategySum[a] for every
\* action a, adds one to visitCount and leaves regretSum as it was;
\* updateRegret(a, v) adds v to regretSum[a] and changes nothing else of the
\* node, and with an index outside the action count it throws
\* invalid_argument and leaves the node as it was.
C20_MutatorsTouchOwnAccumulator ==
    [][/\ \A realizationWeight \in WeightChoices :
             NodeGetStrategy(realizationWeight) => getStrategyFrame(realizationWeight)
       /\ \A action \in -1 .. Len(node.regretSum), regret \in RegretChoices :
             NodeUpdateRegret(action, regret) => updateRegretFrame(action, regret)]_vars

\* a node of three actions that has been visited twice, with unequal regret
\* sums and a strategy sum, has just refused an index outside its actions
C20_Witness ==
    /\ Len(node.regretSum) = 3
    /\ node.visitCount = 2
    /\ node.regretSum[1] # node.regretSum[2]
    /\ RLess(RZero, RSum(node.strategySum))
    /\ thrown = "Invalid action index"

\* ------------------------------------------------------------------------
\* C19
\* ------------------------------------------------------------------------
\* v has the two entries of FOLD and ALL_IN, each in [0, 1], summing to 1
isFoldAllInDistribution(v) ==
    /\ Len(v) = 2
    /\ \A i \in 1 .. 2 : ~RLess(v[i], RZero) /\ ~RLess(ROne, v[i])
    /\ RSum(v) = ROne

\* C19: once train(config) has returned, stats.totalIterations is
\* config.iterations, stats.informationSetsCount is the number of keys of
\* the node map, and every strategy of getAllStrategies() has two entries,
\* each in [0, 1], that sum to 1.
C19_StatsAndStrategiesAfterTraining ==
    trainer.phase = "returned" =>
        /\ trainer.stats.totalIterations = trainer.iterations
        /\ trainer.stats.informationSetsCount = Cardinality(DOMAIN trainer.nodeMap)
        /\ \A infoSet \in DOMAIN trainer.nodeMap :
              isFoldAllInDistribution(getAllStrategies(trainer)[infoSet])

\* train() has returned after all its iterations with several information
\* sets learned, one of them with a strategy that is not uniform
C19_Witness ==
    /\ trainer.phase = "returned"
    /\ trainer.iterations = MaxIterations
    /\ trainer.stats.informationSetsCount >= 3
    /\ \E infoSet \in DOMAIN trainer.nodeMap :
          getAllStrategies(trainer)[infoSet][1] # getAllStrategies(trainer)[infoSet][2]

\* ------------------------------------------------------------------------
\* C18
\* ------------------------------------------------------------------------
\* the lines are in the format saveStrategies writes: comments and empty
\* lines, and pairs of an "InfoSet:" line, its visits a number if given, and
\* a "Strategy:" line of one or more numbers
RECURSIVE wellFormedFrom(_, _)
wellFormedFrom(lines, i) ==
    IF i > Len(lines) THEN TRUE
    ELSE IF lines[i].kind \in {"empty", "comment"} THEN wellFormedFrom(lines, i + 1)
    ELSE /\ lines[i].kind = "InfoSet"
         /\ lines[i].visits.text # "word"
         /\ i + 1 <= Len(lines)
         /\ lines[i + 1].kind = "Strategy"
         /\ lines[i + 1].words # <<>>
         /\ numericPrefix(lines[i + 1].words) = lines[i + 1].words
         /\ wellFormedFrom(lines, i + 2)

\* loadStrategies has been called on a file that exists and is malformed
malformedLoaded ==
    /\ calls = 1
    /\ strategyFile.exists
    /\ ~wellFormedFrom(strategyFile.lines, 1)

\* C18: a load of a malformed strategy file reports failure (it returns
\* false or throws), and the information-set map of the trainer is empty
\* afterwards.
C18_MalformedLoadFailsWithEmptyMap ==
    malformedLoaded =>
        /\ returned = FALSE \/ thrown # NoException
        /\ DOMAIN trainer.nodeMap = {}

\* ------------------------------------------------------------------------
\* C17
\* ------------------------------------------------------------------------
\* train() is inside addDataPoint
handingOff == visualization.train \in {"lockData", "notify", "lockLatest"}

\* train() has run all its iterations and is past its loop
trainingCompleted ==
    /\ visualization.train = "done"
    /\ visualization.totalIterations = visualization.iterations

\* C17: the queue of data points never grows past maxDataPoints; with no
\* visualizer, or one that is not running, train() never enters the
\* hand-off; and whatever the visualization thread, the web server thread
\* and the HTTP clients do or fail to do, train() completes all its
\* iterations.
C17_HandOffNeverStalls ==
    /\ [](Len(visualization.dataPoints_) <= visualization.config.maxDataPoints)
    /\ [](~(visualization.visualizer_ /\ visualization.running_) =>
            ~handingOff /\ visualization.dataPoints_ = <<>>)
    /\ <>trainingCompleted

\* train() has completed three iterations while the visualization thread
\* never looked at the data, a client that connected has sent nothing, and
\* the oldest data points were dropped from the full queue
C17_Witness ==
    /\ trainingCompleted
    /\ visualization.iterations = 3
    /\ visualization.visualizationThread_ = "top"
    /\ visualization.webServerThread_ = "reading"
    /\ visualization.dataPoints_ = <<3>>
    /\ visualization.latestDataJson_ = 3

\* ------------------------------------------------------------------------
\* The three kinds of state
\* ------------------------------------------------------------------------
\* the fault Trainer::mccfr raises at a state, or NoException: past the
\* terminal and chance tests it throws when getLegalActions() is empty
mccfrThrows(s) ==
    IF isTerminal(s) \/ isChanceNode(s) THEN NoException
    ELSE IF getLegalActions(s) = <<>> THEN "No legal actions available"
    ELSE NoException

kindsOf(s) ==
    (IF isChanceNode(s) THEN {"chance"} ELSE {})
        \cup (IF ~isChanceNode(s) /\ ~isTerminal(s) /\ getCurrentPlayer(s) >= 0
              THEN {"decision"} ELSE {})
        \cup (IF isTerminal(s) THEN {"terminal"} ELSE {})

\* C21: in every reachable state exactly one of chance node, player-decision
\* node and terminal holds; at a player-decision node the acting seat has
\* not folded and its legal actions are exactly FOLD and ALL_IN, so a
\* non-terminal state always has a legal action and the trainer's
\* "No legal actions available" fault cannot be raised.
C21_ExactlyOneKindAndActionsAtDecision ==
    /\ Cardinality(kindsOf(state)) = 1
    /\ "decision" \in kindsOf(state) =>
          /\ ~state.folded[getCurrentPlayer(state)]
          /\ getLegalActions(state) = <<FOLD, ALL_IN>>
    /\ ~isTerminal(state) => getLegalActions(state) # <<>>
    /\ mccfrThrows(state) = NoException

\* a decision node late in a hand: two seats have folded, one is all-in and
\* the last seat is to act
C21_Witness ==
    /\ kindsOf(state) = {"decision"}
    /\ Cardinality({i \in Seats : state.folded[i]}) = 2
    /\ Cardinality(state.allInPlayers) = 1
    /\ getLegalActions(state) = <<FOLD, ALL_IN>>

\* ------------------------------------------------------------------------
\* The pot
\* ------------------------------------------------------------------------
potIsContributions(s) == s.pot = SumFn(investments(s), Seats)

\* a step that changes the pot is a legal ALL_IN of the seat to act, which
\* moves that seat's stack into the pot
potChangeIsAllIn ==
    state'.pot # state.pot =>
        /\ isDecisionNode(state)
        /\ state' = applyAction(state, ALL_IN)
        /\ state'.pot = state.pot + state.playerStacks[state.nextPlayer]
        /\ state.nextPlayer \in state'.allInPlayers

\* C22: in every reachable state, from construction through termination,
\* the pot equals the sum over the four seats of (initial stack - current
\* stack); it starts at small blind + big blind and afterwards changes only
\* by ALL_IN.
C22_PotIsSumOfContributions ==
    /\ [](potIsContributions(state)
            /\ (isChanceNode(state) => state.pot = game.smallBlind + game.bigBlind))
    /\ [][potChangeIsAllIn]_vars

\* a finished hand in which two seats went all-in and two folded
C22_Witness ==
    /\ state.gameOver
    /\ Cardinality(state.allInPlayers) = 2
    /\ state.pot > game.smallBlind + game.bigBlind
    /\ potIsContributions(state)

\* ------------------------------------------------------------------------
\* One hand of play with its decisions counted
\* ------------------------------------------------------------------------
\* the count of decisions stops here, past the four a hand can hold
MaxDecisions == 6

\* state.applyAction(action), legal or not; calls counts the FOLD and ALL_IN
\* decisions the state accepted
ApplyActionCounted(action) ==
    /\ state' = applyAction(state, action)
    /\ thrown' = applyActionThrows(state, action)
    /\ calls' = IF isDecisionNode(state) /\ applyActionThrows(state, action) = NoException
                THEN Min({calls + 1, MaxDecisions})
                ELSE calls
    /\ UNCHANGED <<game, returned, trainer, node, aside>>

NextDecisions == \E action \in Action : ApplyActionCounted(action)

SpecDecisions == Init /\ [][NextDecisions]_vars

\* the seats that have folded or gone all-in
decided(s) == {i \in Seats : s.folded[i]} \cup s.allInPlayers

\* a decision is taken by a seat that had not decided before
decisionIsFirstOfSeat ==
    calls' # calls =>
        /\ state.nextPlayer \notin decided(state)
        /\ decided(state') = decided(state) \cup {state.nextPlayer}

\* C23: in every hand each seat makes at most one FOLD/ALL_IN decision: a
\* seat that has folded or gone all-in is never the acting seat of a
\* non-terminal state again, and the hand is terminal after at most four
\* decisions following DEAL.
C23_OneDecisionPerSeat ==
    /\ []((dealt(state) /\ ~state.gameOver) => state.nextPlayer \notin decided(state))
    /\ [](calls = Cardinality(decided(state)) /\ calls <= NUM_PLAYERS)
    /\ [](calls = NUM_PLAYERS => state.gameOver)
    /\ [][decisionIsFirstOfSeat]_vars

\* a hand that took all four decisions, with folds and all-ins among them
C23_Witness ==
    /\ calls = NUM_PLAYERS
    /\ state.gameOver
    /\ Cardinality(state.allInPlayers) = 2
    /\ state.folded[3] /\ state.folded[0]

\* ------------------------------------------------------------------------
\* The layers of the side pots
\* ------------------------------------------------------------------------
\* the members of the seat set S whose contribution reaches the level
reaching(s, S, level) == {i \in S : investments(s)[i] >= level}

\* the distinct positive contributions of the seats of S, in increasing order
levels(s, S) == SetToSeq({investments(s)[i] : i \in S} \ {0})

previousLevel(lv, k) == IF k = 1 THEN 0 ELSE lv[k - 1]

\* the side pots of a state as (amount, set of eligible seats) pairs
layersOf(s) ==
    [k \in 1 .. Len(s.sidePots) |->
        [amount |-> s.sidePots[k].amount,
         eligible |-> {s.sidePots[k].contributors[j] :
                           j \in 1 .. Len(s.sidePots[k].contributors)}]]

\* one layer per contribution level of the non-folded seats, sized by the
\* non-folded seats that reach the level
layersOfNonFolded(s) ==
    LET lv == levels(s, nonFolded(s))
    IN [k \in 1 .. Len(lv) |->
           [amount |-> (lv[k] - previousLevel(lv, k))
                           * Cardinality(reaching(s, nonFolded(s), lv[k])),
            eligible |-> reaching(s, nonFolded(s), lv[k])]]

\* one layer per contribution level of all seats, folded or not, that some
\* non-folded seat reaches, sized by all the seats that reach the level
RECURSIVE layersFrom(_, _, _)
layersFrom(s, lv, k) ==
    IF k > Len(lv) THEN <<>>
    ELSE (IF reaching(s, nonFolded(s), lv[k]) = {} THEN <<>>
          ELSE <<[amount |-> (lv[k] - previousLevel(lv, k))
                                 * Cardinality(reaching(s, Seats, lv[k])),
                  eligible |-> reaching(s, nonFolded(s), lv[k])]>>)
         \o layersFrom(s, lv, k + 1)

layersOfAllSeats(s) == layersFrom(s, levels(s, Seats), 1)

bestOfLayer(s, layer) ==
    {p \in layer.eligible :
        \A q \in layer.eligible :
            compareHands(playerScore(s, q), playerScore(s, p)) <= 0}

\* the share of a layer that a seat receives: an equal part for each seat
\* holding the best score of the eligible set, nothing for the others
shareOfLayer(layer, best, seat) ==
    IF seat \in best THEN layer.amount \div Cardinality(best) ELSE 0

sharesOf(s, seat) ==
    SumSeq([k \in 1 .. Len(s.sidePots) |->
               shareOfLayer(layersOf(s)[k], bestOfLayer(s, layersOf(s)[k]), seat)])

multiWayShowdown(s) == s.gameOver /\ Cardinality(nonFolded(s)) >= 2

\* C25: at a multi-way showdown each side-pot layer is split equally among
\* exactly the seats of its eligible set that hold the best hand score
\* within that set, and each seat's payoff is the sum of its shares minus
\* its total investment; a folded seat receives no share, so its payoff is
\* exactly minus its investment.
C25_LayersSplitAmongBestEligible ==
    multiWayShowdown(state) =>
        /\ \A i \in Seats :
              getReturns(state)[i + 1] = sharesOf(state, i) - investments(state)[i]
        /\ \A i \in Seats : state.folded[i] =>
              /\ sharesOf(state, i) = 0
              /\ \A k \in 1 .. Len(state.sidePots) : i \notin layersOf(state)[k].eligible
              /\ getReturns(state)[i + 1] = -investments(state)[i]

\* a showdown behind a folded blind that loses what it posted, with one
\* layer shared by seats that tie and another layer won by other seats
C25_Witness ==
    /\ multiWayShowdown(state)
    /\ \E i \in Seats : state.folded[i] /\ investments(state)[i] > 0
    /\ \E k \in 1 .. Len(state.sidePots) :
          Cardinality(bestOfLayer(state, layersOf(state)[k])) >= 2
    /\ \E j, k \in 1 .. Len(state.sidePots) :
          bestOfLayer(state, layersOf(state)[j]) # bestOfLayer(state, layersOf(state)[k])

\* ------------------------------------------------------------------------
\* The community cards
\* ------------------------------------------------------------------------
\* the board changes only in the step that ends the hand
boardDealtAtEnd ==
    state'.communityCards # state.communityCards =>
        ~state.gameOver /\ state'.gameOver

\* C26: community cards are dealt only at termination: every non-terminal
\* state has no community cards, and every terminal state, also one reached
\* because all seats but one folded, has exactly 5 community cards and side
\* pots computed from the final contributions.
C26_BoardOnlyAtTermination ==
    /\ [](~state.gameOver => state.communityCards = <<>> /\ state.sidePots = <<>>)
    /\ [](state.gameOver =>
            /\ Len(state.communityCards) = COMMUNITY_CARDS
            /\ state.sidePots = calculateSidePots(state).sidePots)
    /\ [][boardDealtAtEnd]_vars

\* a hand that ended because three seats folded, with its board dealt
C26_Witness ==
    /\ state.gameOver
    /\ Cardinality(nonFolded(state)) = 1
    /\ state.allInPlayers = {}
    /\ Len(state.communityCards) = COMMUNITY_CARDS
    /\ state.sidePots # <<>>

\* ------------------------------------------------------------------------
\* Folded and all-in seats
\* ------------------------------------------------------------------------
\* C27: no seat is ever both folded and in the all-in set, in any reachable
\* state.
C27_FoldedAndAllInDisjoint ==
    {i \in Seats : state.folded[i]} \cap state.allInPlayers = {}

\* a hand still running with a folded seat and two all-in seats
C27_Witness ==
    /\ ~state.gameOver
    /\ Cardinality({i \in Seats : state.folded[i]}) = 1
    /\ Cardinality(state.allInPlayers) = 2

\* ------------------------------------------------------------------------
\* The order of the decisions
\* ------------------------------------------------------------------------
\* the first seat after seat p, in cyclic order, that has not folded
firstNotFoldedAfter(s, p) ==
    LET d == Min({k \in 1 .. NUM_PLAYERS : ~s.folded[(p + k) % NUM_PLAYERS]})
    IN (p + d) % NUM_PLAYERS

\* a decision that leaves the hand running hands the turn to the first
\* non-folded seat after the one that decided
turnPassesOn ==
    (calls' # calls /\ ~state'.gameOver) =>
        state'.nextPlayer = firstNotFoldedAfter(state', state.nextPlayer)

\* C28: after a FOLD or ALL_IN that does not end the hand, the acting seat
\* becomes the first seat after the one that just acted, in cyclic order
\* 0, 1, 2, 3, 0, ..., that has not folded; with seat 2 acting first after
\* DEAL, decisions are taken in the order 2, 3, 0, 1.
C28_TurnOrder ==
    /\ [][turnPassesOn]_vars
    /\ []((dealt(state) /\ ~state.gameOver) =>
            getCurrentPlayer(state) = <<2, 3, 0, 1>>[calls + 1])

\* the big blind is to take the fourth decision, behind a fold and two all-ins
C28_Witness ==
    /\ dealt(state) /\ ~state.gameOver
    /\ calls = 3
    /\ getCurrentPlayer(state) = 1
    /\ state.folded[3]
    /\ state.allInPlayers = {2, 0}

\* ------------------------------------------------------------------------
\* RealtimeVisualizer: start(), stop() and the destructor
\* ------------------------------------------------------------------------
\* A RealtimeVisualizer with the three threads that touch it: the owner,
\* which constructs it, calls start(), hands data points over, calls stop()
\* and destroys it; the visualization thread; the web server thread.  The
\* record holds the members (their names end in _), whether each
\* std::thread member is joinable, the place each thread is at, and whether
\* std::terminate() was called.  A wait on dataCondition_ is the steps
\* wait(lock, pred) is made of: the predicate is read under the lock, and
\* if it is false the thread releases the lock and blocks in one step,
\* until a notify picks it or it wakes up spuriously.
RealtimeVisualizer(config) ==
    [config |-> config,
     owner |-> "constructed",
     running_ |-> FALSE,
     shouldStop_ |-> FALSE,
     webServerRunning_ |-> FALSE,
     dataPoints_ |-> <<>>,
     latestDataJson_ |-> 0,
     dataMutex_ |-> Free,
     visualizationThread_ |-> "none",
     visualizationJoinable |-> FALSE,
     webServerThread_ |-> "none",
     webServerJoinable |-> FALSE,
     terminated |-> FALSE]

\* startWebServer(): the thread is created unless the server already runs
startWebServer(v) ==
    IF v.webServerRunning_ THEN v
    ELSE [v EXCEPT !.webServerThread_ = "setup", !.webServerJoinable = TRUE]

\* start(): false if running or not enabled, else both threads are created
start(v) ==
    IF v.running_ \/ ~v.config.enabled THEN [v EXCEPT !.owner = "started"]
    ELSE [startWebServer(v) EXCEPT !.running_ = TRUE,
                                   !.shouldStop_ = FALSE,
                                   !.visualizationThread_ = "top",
                                   !.visualizationJoinable = TRUE,
                                   !.owner = "started"]

\* dataCondition_.notify_one() / notify_all() with the one thread that waits
notifyWaiter(v) ==
    [v EXCEPT !.visualizationThread_ = IF @ = "waiting" THEN "notified" ELSE @]

\* addDataPoint(dataPoint) on a running visualizer: push_back and trim under
\* dataMutex_, notify_one, broadcast to the web clients if the server runs
addDataPoint(v, iteration) ==
    [notifyWaiter(v) EXCEPT
        !.dataPoints_ = trimmed(Append(v.dataPoints_, iteration), v.config.maxDataPoints),
        !.latestDataJson_ = IF v.webServerRunning_ THEN iteration ELSE @]

\* stopWebServer(), entered at "stopWebServer": returns at once when
\* webServerRunning_ is false, else clears it and joins the thread
stopWebServer(v) ==
    IF v.owner = "stopWebServer"
    THEN IF ~v.webServerRunning_ THEN [v EXCEPT !.owner = "finish"]
         ELSE [v EXCEPT !.webServerRunning_ = FALSE, !.owner = "joinWebServer"]
    ELSE [v EXCEPT !.webServerJoinable = FALSE, !.owner = "finish"]

\* the owner waits in a join() for a thread that has not ended
joinBlocked(v) ==
    \/ v.owner = "joinVisualization" /\ v.visualizationJoinable
          /\ v.visualizationThread_ # "ended"
    \/ v.owner = "joinWebServer" /\ v.webServerJoinable /\ v.webServerThread_ # "ended"

\* the next step of stop(), entered at "started"
stop(v) ==
    CASE v.owner = "started" ->
            IF ~v.running_ THEN [v EXCEPT !.owner = "returned"]
            ELSE [v EXCEPT !.owner = "signal"]
      [] v.owner = "signal" -> [v EXCEPT !.shouldStop_ = TRUE, !.owner = "notify"]
      [] v.owner = "notify" -> [notifyWaiter(v) EXCEPT !.owner = "joinVisualization"]
      [] v.owner = "joinVisualization" ->
            [v EXCEPT !.visualizationJoinable = FALSE, !.owner = "stopWebServer"]
      [] v.owner \in {"stopWebServer", "joinWebServer"} -> stopWebServer(v)
      [] v.owner = "finish" -> [v EXCEPT !.running_ = FALSE, !.owner = "returned"]

\* ~RealtimeVisualizer() after stop() has returned: its own stop() finds
\* running_ false, then the members are destroyed, and the destructor of a
\* joinable std::thread calls std::terminate()
destroy(v) ==
    [v EXCEPT !.owner = "destroyed",
              !.terminated = v.visualizationJoinable \/ v.webServerJoinable]

\* the visualization thread cannot take its next step: it needs dataMutex_,
\* or it is blocked in the wait, or it does not run
visualizationLoopBlocked(v) ==
    \/ v.visualizationThread_ \in {"none", "ended", "waiting"}
    \/ v.visualizationThread_ \in {"lock", "notified"} /\ v.dataMutex_ # Free

\* the next step of visualizationLoop()
visualizationLoop(v) ==
    CASE v.visualizationThread_ = "top" ->
            [v EXCEPT !.visualizationThread_ = IF v.shouldStop_ THEN "ended" ELSE "lock"]
      [] v.visualizationThread_ \in {"lock", "notified"} ->
            [v EXCEPT !.dataMutex_ = "visualization", !.visualizationThread_ = "predicate"]
      [] v.visualizationThread_ = "predicate" ->
            [v EXCEPT !.visualizationThread_ =
                IF v.dataPoints_ # <<>> \/ v.shouldStop_ THEN "woken" ELSE "block"]
      [] v.visualizationThread_ = "block" ->
            [v EXCEPT !.dataMutex_ = Free, !.visualizationThread_ = "waiting"]
      [] v.visualizationThread_ = "woken" ->
            [v EXCEPT !.dataMutex_ = Free,
                      !.visualizationThread_ = IF v.shouldStop_ THEN "ended" ELSE "sleeping"]
      [] v.visualizationThread_ = "sleeping" -> [v EXCEPT !.visualizationThread_ = "top"]

\* the next step of the web server thread after its set-up: the test of its
\* loop, then select() and the request it may serve
webServerLoop(v) ==
    IF v.webServerThread_ = "select"
    THEN [v EXCEPT !.webServerThread_ =
             IF v.webServerRunning_ /\ ~v.shouldStop_ THEN "accept" ELSE "ended"]
    ELSE [v EXCEPT !.webServerThread_ = "select"]

\* the most data points the owner hands over before it stops the visualizer
MaxStopDataPoints == 2

InitStop ==
    /\ game = DefaultGame
    /\ state = InitialState(DefaultGame, 1)
    /\ thrown = NoException
    /\ returned = <<>>
    /\ trainer = Trainer(0)
    /\ node = Node(2)
    /\ calls = 0
    /\ deck = Deck(1)
    /\ drawn = <<>>
    /\ InitObjects(DefaultGame, 1)
    /\ fiveCardHand = NoHand
    /\ sevenCards = NoCards
    /\ \E config \in RealtimeConfigs : visualization = RealtimeVisualizer(config)
    /\ strategyFile = NoFile
    /\ walk = NoWalk

\* --- the owner ---
Start ==
    /\ visualization.owner = "constructed"
    /\ VisualizationStep(start(visualization))

\* calls counts the data points handed over
AddDataPointRunning ==
    /\ visualization.owner = "started"
    /\ visualization.running_
    /\ visualization.dataMutex_ = Free
    /\ calls < MaxStopDataPoints
    /\ visualization' = addDataPoint(visualization, calls + 1)
    /\ calls' = calls + 1
    /\ UNCHANGED <<game, state, thrown, returned, trainer, node, deck, drawn,
                   original, clone, decks, fiveCardHand, sevenCards, strategyFile, walk>>

Stop ==
    /\ visualization.owner \in {"started", "signal", "notify", "joinVisualization",
                                "stopWebServer", "joinWebServer", "finish"}
    /\ ~joinBlocked(visualization)
    /\ VisualizationStep(stop(visualization))

Destroy ==
    /\ visualization.owner = "returned"
    /\ VisualizationStep(destroy(visualization))

\* --- the visualization thread ---
VisualizationLoop ==
    /\ ~visualizationLoopBlocked(visualization)
    /\ VisualizationStep(visualizationLoop(visualization))

\* a wait on a condition variable may return without a notify
SpuriousWakeUp ==
    /\ visualization.visualizationThread_ = "waiting"
    /\ VisualizationStep(notifyWaiter(visualization))

\* --- the web server thread ---
WebServerStart(succeeded) ==
    /\ visualization.webServerThread_ = "setup"
    /\ VisualizationStep(webServerSetUp(visualization, succeeded))

WebServerLoop ==
    /\ visualization.webServerThread_ \in {"select", "accept"}
    /\ VisualizationStep(webServerLoop(visualization))

NextStop ==
    \/ Start
    \/ AddDataPointRunning
    \/ Stop
    \/ Destroy
    \/ VisualizationLoop
    \/ SpuriousWakeUp
    \/ \E succeeded \in BOOLEAN : WebServerStart(succeeded)
    \/ WebServerLoop

SpecStop == InitStop /\ [][NextStop]_vars

\* Every thread that can take a step takes one: the owner goes on through
\* stop(), the visualization thread and the web server thread run (select()
\* times out after a second, a request is served).  A wait that no notify
\* picks may last for ever: no spurious wake-up is promised.
SpecStopLive ==
    /\ SpecStop
    /\ WF_vars(Stop)
    /\ WF_vars(VisualizationLoop)
    /\ WF_vars(\E succeeded \in BOOLEAN : WebServerStart(succeeded))
    /\ WF_vars(WebServerLoop)

\* stop() was entered on a running visualizer and has not returned
stopping(v) ==
    v.owner \in {"signal", "notify", "joinVisualization", "stopWebServer",
                 "joinWebServer", "finish"}

\* stop() has returned from a visualizer that start() had started
stopped(v) == v.owner \in {"returned", "destroyed"} /\ v.visualizationThread_ # "none"

\* C29: after stop() returns, and so before the RealtimeVisualizer is
\* destroyed, both threads created by start() have exited and been joined,
\* in every interleaving of stop() with the start-up of the web server
\* thread and also when that thread exits early because socket, bind or
\* listen failed.
C29_ThreadsJoinedAfterStop ==
    stopped(visualization) =>
        /\ visualization.visualizationThread_ = "ended"
        /\ ~visualization.visualizationJoinable
        /\ visualization.webServerThread_ = "ended"
        /\ ~visualization.webServerJoinable
        /\ ~visualization.terminated

\* C30: a call to stop() on a running visualizer always returns: the
\* visualization thread always sees the stop request and exits, also when
\* no data point was ever added and when the stop request races with the
\* thread entering its wait.
C30_StopAlwaysReturns ==
    stopping(visualization) ~> (visualization.owner \in {"returned", "destroyed"})

\* ------------------------------------------------------------------------
\* RealtimeVisualizer: addDataPoint at any time of its life
\* ------------------------------------------------------------------------
\* the most calls of addDataPoint the owner makes
MaxQueueCalls == 3

\* addDataPoint(dataPoint) called by the owner before start(), between
\* start() and stop(), or after stop(): "if (!running_) return" first; the
\* sample is the number of the call
AddDataPointCalled ==
    /\ visualization.owner \in {"constructed", "started", "returned"}
    /\ calls < MaxQueueCalls
    /\ visualization.running_ => visualization.dataMutex_ = Free
    /\ visualization' = IF visualization.running_
                        THEN addDataPoint(visualization, calls + 1)
                        ELSE visualization
    /\ calls' = calls + 1
    /\ UNCHANGED <<game, state, thrown, returned, trainer, node, deck, drawn,
                   original, clone, decks, fiveCardHand, sevenCards, strategyFile, walk>>

NextQueue ==
    \/ Start
    \/ AddDataPointCalled
    \/ Stop
    \/ Destroy
    \/ VisualizationLoop
    \/ SpuriousWakeUp
    \/ \E succeeded \in BOOLEAN : WebServerStart(succeeded)
    \/ WebServerLoop

SpecQueue == InitStop /\ [][NextQueue]_vars

\* the last n elements of a sequence, all of it when it is shorter
lastOf(q, n) == SubSeq(q, Max({1, Len(q) - n + 1}), Len(q))

\* a call of addDataPoint leaves the newest samples in arrival order when
\* the visualizer runs, and changes nothing when it does not
queueKeepsNewest ==
    calls' # calls =>
        IF visualization.running_
        THEN visualization'.dataPoints_ =
                 lastOf(Append(visualization.dataPoints_, calls'),
                        visualization.config.maxDataPoints)
        ELSE visualization' = visualization

\* C31: while the visualizer is running, after every addDataPoint the sample
\* queue holds at most maxDataPoints samples, namely the most recently added
\* ones in arrival order (on overflow the oldest are dropped first);
\* addDataPoint on a visualizer that is not running changes nothing.
C31_QueueHoldsNewestSamples ==
    /\ [](Len(visualization.dataPoints_) <= visualization.config.maxDataPoints)
    /\ [][queueKeepsNewest]_vars

\* three samples went into a running visualizer that keeps two: the first
\* one was dropped
C31_Witness ==
    /\ visualization.running_
    /\ visualization.config.maxDataPoints = 2
    /\ calls = 3
    /\ visualization.dataPoints_ = <<2, 3>>

\* ------------------------------------------------------------------------
\* One iteration of train(), step by step
\* ------------------------------------------------------------------------
\* The record follows one pass of the loop of train(): the four calls of
\* mccfr (the walk of seat 0, 1, 2, 3), then getExactUtilities.  It holds
\* baseState (root), the seat trained (player), the GameState object the
\* call at hand works on (s), its reachProb, the loop of the trained
\* player's branch that waits for a recursive call to return (frame),
\* nodeMap_ and the generator, what the calls returned, counts of what the
\* walk at hand has done, and the map and the generator as the iteration
\* (first) and the walk at hand (entry) found them.  The calls for a chance node and for an
\* opponent pass their state on to the one call they make and return its
\* value, so the one frame that waits is the trained player's.
NoFrame ==
    [active |-> FALSE, s |-> <<>>, infoSet |-> <<>>, strategy |-> <<>>,
     reachProb |-> <<>>, i |-> 0, utilities |-> <<>>]

\* the trained player's branch at state s, before its loop over the actions
Frame(s, infoSet, strategy, reachProb) ==
    [active |-> TRUE, s |-> s, infoSet |-> infoSet, strategy |-> strategy,
     reachProb |-> reachProb, i |-> 1, utilities |-> <<>>]

\* the loop of train() has made baseState and is about to copy it for seat 0
Iteration(baseState, nodeMap, rng) ==
    [phase |-> "iteration",
     root |-> baseState,
     player |-> 0,
     s |-> baseState,
     reachProb |-> Filled(NUM_PLAYERS, ROne),
     frame |-> NoFrame,
     nodeMap |-> nodeMap,
     rng |-> rng,
     mccfrUtilities |-> <<>>,
     exactUtilities |-> <<>>,
     terminals |-> 0,
     branches |-> 0,
     first |-> [nodeMap |-> nodeMap, rng |-> rng],
     entry |-> [nodeMap |-> nodeMap, rng |-> rng]]

\* a copy of baseState that comes with a deck of its own order
rootCopy_Reshuffled(baseState) ==
    [baseState EXCEPT !.deck = SubSeq(@, 2, Len(@)) \o <<Head(@)>>]

\* std::make_unique<GameState>(*baseState): the copy constructor copies the
\* deck with the rest
rootCopy(baseState) == baseState

\* "auto stateCopy = ...; reachProb = baseReachProb; mccfr(stateCopy, player,
\* reachProb)" is entered
walkStarted(w) ==
    [w EXCEPT !.phase = "enter",
              !.s = rootCopy(w.root),
              !.reachProb = Filled(NUM_PLAYERS, ROne),
              !.frame = NoFrame,
              !.terminals = 0,
              !.branches = 0,
              !.entry = [nodeMap |-> w.nodeMap, rng |-> w.rng]]

\* a call of mccfr returns value: to the loop of the trained player's branch
\* if one waits, else to train(), which goes on to the next seat
returnedTo(w, value) ==
    IF w.frame.active
    THEN [w EXCEPT !.frame.utilities = Append(@, value),
                   !.frame.i = @ + 1,
                   !.phase = "loop"]
    ELSE [w EXCEPT !.mccfrUtilities = Append(@, value),
                   !.player = @ + 1,
                   !.phase = "iteration"]

\* an opponent's branch that draws but leaves the generator where it was
opponentSampled_SameDraw(w, currentPlayer, legalActions, strategy, visitedMap, actionIndex) ==
    [w EXCEPT !.nodeMap = visitedMap,
              !.s = applyAction(w.s, legalActions[actionIndex + 1]),
              !.reachProb = scaleReach(w.reachProb, currentPlayer, strategy[actionIndex + 1])]

\* an opponent's branch that passes reachProb on as it got it
opponentSampled_ReachKept(w, currentPlayer, legalActions, strategy, visitedMap, actionIndex) ==
    [w EXCEPT !.nodeMap = visitedMap,
              !.rng = rngNext(w.rng),
              !.s = applyAction(w.s, legalActions[actionIndex + 1])]

\* the opponent's branch: the sampled action is applied to the state itself
\* and the call goes on with it
opponentSampled(w, currentPlayer, legalActions, strategy, visitedMap, actionIndex) ==
    [w EXCEPT !.nodeMap = visitedMap,
              !.rng = rngNext(w.rng),
              !.s = applyAction(w.s, legalActions[actionIndex + 1]),
              !.reachProb = scaleReach(w.reachProb, currentPlayer, strategy[actionIndex + 1])]

\* mccfr at a decision node once node.getStrategy(reachProb[currentPlayer])
\* has returned strategy and left the map visitedMap
decisionVisited(w, currentPlayer, infoSet, legalActions, strategy, visitedMap) ==
    IF currentPlayer = w.player
    THEN [w EXCEPT !.nodeMap = visitedMap,
                   !.frame = Frame(w.s, infoSet, strategy, w.reachProb),
                   !.branches = @ + 1,
                   !.phase = "loop"]
    ELSE opponentSampled(w, currentPlayer, legalActions, strategy, visitedMap,
                         sampleAction(strategy, rngDraw(w.rng)))

\* mccfr at a decision node: the node of the information set is made if it
\* is missing, and visited
decisionEntered(w, currentPlayer, infoSet, legalActions, withNode) ==
    decisionVisited(w, currentPlayer, infoSet, legalActions,
                    getStrategy(withNode[infoSet], w.reachProb[currentPlayer + 1]).strategy_,
                    putNode(withNode, infoSet,
                            getStrategy(withNode[infoSet], w.reachProb[currentPlayer + 1])))

\* mccfr(state, player, reachProb) is entered with the state w.s
mccfrEntered(w) ==
    IF isTerminal(w.s)
        THEN returnedTo([w EXCEPT !.terminals = @ + 1],
                        Rat(getReturns(w.s)[w.player + 1], 1))
    ELSE IF isChanceNode(w.s) THEN [w EXCEPT !.s = applyAction(w.s, DEAL)]
    ELSE decisionEntered(w, getCurrentPlayer(w.s),
                         getInformationSet(w.s, getCurrentPlayer(w.s)),
                         getLegalActions(w.s),
                         ensureNode(w.nodeMap,
                                    getInformationSet(w.s, getCurrentPlayer(w.s)),
                                    Len(getLegalActions(w.s))))

\* the end of the trained player's branch with the utility of each action,
\* not its regret, added to the node
regretsReturned_UtilityAdded(w, nodeUtility) ==
    returnedTo([w EXCEPT !.nodeMap =
                    putNode(w.nodeMap, w.frame.infoSet,
                            updateRegrets(w.nodeMap[w.frame.infoSet],
                                          w.frame.utilities, RZero, 1)),
                         !.frame = NoFrame],
               nodeUtility)

\* the trained player's branch after its loop: the regrets of its node are
\* updated and nodeUtility is returned
regretsReturned(w, nodeUtility) ==
    returnedTo([w EXCEPT !.nodeMap =
                    putNode(w.nodeMap, w.frame.infoSet,
                            updateRegrets(w.nodeMap[w.frame.infoSet],
                                          w.frame.utilities, nodeUtility, 1)),
                         !.frame = NoFrame],
               nodeUtility)

\* the loop of the trained player's branch: the next action is applied to a
\* copy of the state and mccfr is called on the copy, or the loop is over
mccfrLooped(w) ==
    IF w.frame.i <= Len(getLegalActions(w.frame.s))
    THEN [w EXCEPT !.s = applyAction(w.frame.s, getLegalActions(w.frame.s)[w.frame.i]),
                   !.reachProb = scaleReach(w.frame.reachProb, w.player,
                                            w.frame.strategy[w.frame.i]),
                   !.phase = "enter"]
    ELSE regretsReturned(w, nodeUtilityOf(w.frame.strategy, w.frame.utilities))

\* getExactUtilities(terminalState) is entered with a copy of baseState
playOutStarted(w) == [w EXCEPT !.phase = "playout", !.s = rootCopy(w.root)]

\* one turn of the loop of getExactUtilities, or its return
playOutLooped(w) ==
    IF isTerminal(w.s) \/ (~isChanceNode(w.s) /\ getLegalActions(w.s) = <<>>)
        THEN [w EXCEPT !.phase = "done",
                       !.exactUtilities = asUtilities(getReturns(w.s))]
    ELSE IF isChanceNode(w.s) THEN [w EXCEPT !.s = applyAction(w.s, DEAL)]
    ELSE IF getInformationSet(w.s, getCurrentPlayer(w.s)) \in DOMAIN w.nodeMap
        THEN [w EXCEPT !.s = applyAction(w.s, getLegalActions(w.s)[
                  bestActionFrom(getAverageStrategy(
                      w.nodeMap[getInformationSet(w.s, getCurrentPlayer(w.s))]), 2, 0) + 1])]
    ELSE [w EXCEPT !.s = applyAction(w.s, getLegalActions(w.s)[
              sampleAction(Filled(Len(getLegalActions(w.s)),
                                  Rat(1, Len(getLegalActions(w.s)))),
                           rngDraw(w.rng)) + 1]),
                   !.rng = rngNext(w.rng)]

\* the maps an iteration starts on: the empty one of a new Trainer, and, on
\* the first MaxSeed deals, the one that an iteration before it on the same
\* cards has left
WalkMaps(g, seed) ==
    IF seed <= MaxSeed
    THEN {EmptyNodeMap, trainIteration(Trainer(0), InitialState(g, seed)).trainer.nodeMap}
    ELSE {EmptyNodeMap}

\* the deals the iteration is followed on
MaxWalkSeed == 7

InitWalk ==
    /\ game \in TrainerGames
    /\ state = InitialState(game, 1)
    /\ thrown = NoException
    /\ returned = <<>>
    /\ trainer = Trainer(0)
    /\ node = Node(2)
    /\ calls = 0
    /\ deck = Deck(1)
    /\ drawn = <<>>
    /\ InitObjects(DefaultGame, 1)
    /\ fiveCardHand = NoHand
    /\ sevenCards = NoCards
    /\ visualization = NoVisualization
    /\ strategyFile = NoFile
    /\ \E seed \in 1 .. MaxWalkSeed :
          \E nodeMap \in WalkMaps(game, seed) :
              \E rng \in 0 .. MaxRngSeed :
                  walk = Iteration(InitialState(game, seed), nodeMap, rng)

\* every step of the iteration leaves all but the record of the walk
WalkStep(w) ==
    /\ walk' = w
    /\ UNCHANGED <<game, state, thrown, returned, trainer, node, calls, deck, drawn,
                   original, clone, decks, fiveCardHand, sevenCards, visualization,
                   strategyFile>>

WalkStart ==
    /\ walk.phase = "iteration"
    /\ walk.player < NUM_PLAYERS
    /\ WalkStep(walkStarted(walk))

MccfrEnter ==
    /\ walk.phase = "enter"
    /\ WalkStep(mccfrEntered(walk))

MccfrLoop ==
    /\ walk.phase = "loop"
    /\ WalkStep(mccfrLooped(walk))

PlayOutStart ==
    /\ walk.phase = "iteration"
    /\ walk.player >= NUM_PLAYERS
    /\ WalkStep(playOutStarted(walk))

PlayOutLoop ==
    /\ walk.phase = "playout"
    /\ WalkStep(playOutLooped(walk))

NextWalk ==
    \/ WalkStart
    \/ MccfrEnter
    \/ MccfrLoop
    \/ PlayOutStart
    \/ PlayOutLoop

SpecWalk == InitWalk /\ [][NextWalk]_vars

\* the iteration of the record as train() runs it in one piece
iterationOf(w) ==
    trainIteration([Trainer(w.first.rng) EXCEPT !.nodeMap = w.first.nodeMap], w.root)

\* followed step by step, the iteration leaves the nodeMap_, the generator
\* and the exact utilities that it leaves when run in one piece
WalkAgreesWithTrainIteration ==
    walk.phase = "done" =>
        /\ walk.nodeMap = iterationOf(walk).trainer.nodeMap
        /\ walk.rng = iterationOf(walk).trainer.rng
        /\ walk.exactUtilities = iterationOf(walk).trainer.totalUtilities

\* the hole cards and the board that the deck of an undealt state holds
holeCardsFrom(root) == dealtCards(root.deck, NUM_PLAYERS * HOLE_CARDS_PER_PLAYER)

boardFrom(root) ==
    dealtCards(remainingCards(root.deck, NUM_PLAYERS * HOLE_CARDS_PER_PLAYER),
               COMMUNITY_CARDS)

\* the state a walk or the playout works on holds the cards of the root
cardsOfRoot(s, root) ==
    /\ dealt(s) => s.holeCards = holeCardsFrom(root)
    /\ isTerminal(s) => s.communityCards = boardFrom(root)

\* each of the five calls of the iteration starts on the root, which stays
startsOnRoot ==
    /\ walk'.root = walk.root
    /\ walk.phase = "iteration" /\ walk'.phase # "iteration" => walk'.s = walk.root

\* C32: within one training iteration the four per-player walks and the
\* exact-utility playout each start from a copy of the same undealt root with
\* the same deck order, so every state they reach holds the same hole cards
\* and every terminal state they evaluate holds the same community cards.
C32_SameCardsInEveryWalk ==
    /\ [](isChanceNode(walk.root))
    /\ [](cardsOfRoot(walk.s, walk.root))
    /\ [](walk.frame.active => cardsOfRoot(walk.frame.s, walk.root))
    /\ [][startsOnRoot]_vars

\* the playout has ended on the cards that the four walks before it saw
C32_Witness ==
    /\ walk.phase = "done"
    /\ Len(walk.mccfrUtilities) = NUM_PLAYERS
    /\ walk.terminals = 2
    /\ isTerminal(walk.s)
    /\ walk.s.holeCards = holeCardsFrom(walk.root)
    /\ walk.s.communityCards = boardFrom(walk.root)

\* the regret sums of an information set in a map: zeros where it has no node
regretsIn(nodeMap, infoSet) ==
    IF infoSet \in DOMAIN nodeMap THEN nodeMap[infoSet].regretSum
    ELSE Filled(Len(<<FOLD, ALL_IN>>), RZero)

\* a step of the loop of the trained player's branch that calls mccfr: the
\* call gets a clone with the action applied, the state of the branch stays
recursesOnClone ==
    walk.phase = "loop" /\ walk.frame.i <= Len(getLegalActions(walk.frame.s)) =>
        /\ walk'.phase = "enter"
        /\ walk'.s = applyAction(walk.frame.s, getLegalActions(walk.frame.s)[walk.frame.i])
        /\ walk'.frame.s = walk.frame.s
        /\ walk'.nodeMap = walk.nodeMap

\* the step that ends the trained player's branch, with nodeUtility the sum
\* of strategy[i] * utilities[i]: one utility per legal action, every regret
\* of the node raised by utilities[i] - nodeUtility, nodeUtility returned
regretsOfBranch(nodeUtility) ==
    walk.phase = "loop" /\ walk.frame.i > Len(getLegalActions(walk.frame.s)) =>
        /\ Len(walk.frame.utilities) = Len(getLegalActions(walk.frame.s))
        /\ walk.frame.infoSet = getInformationSet(walk.frame.s, walk.player)
        /\ \A i \in 1 .. Len(walk.frame.utilities) :
              regretsIn(walk'.nodeMap, walk.frame.infoSet)[i]
                  = RAdd(regretsIn(walk.nodeMap, walk.frame.infoSet)[i],
                         RSub(walk.frame.utilities[i], nodeUtility))
        /\ walk'.mccfrUtilities = Append(walk.mccfrUtilities, nodeUtility)

\* regrets change in the step that ends the trained player's branch, at its
\* node, and nowhere else
regretsOfTargetOnly ==
    \A infoSet \in DOMAIN walk'.nodeMap :
        regretsIn(walk'.nodeMap, infoSet) # regretsIn(walk.nodeMap, infoSet) =>
            /\ walk.phase = "loop"
            /\ walk.frame.i > Len(getLegalActions(walk.frame.s))
            /\ infoSet = walk.frame.infoSet
            /\ getCurrentPlayer(walk.frame.s) = walk.player

\* C33: at a decision node of the walk's target player the walk recurses once
\* per legal action on a separate clone of the state, takes nodeUtility as the
\* strategy-weighted sum of the per-action utilities, adds (actionUtility -
\* nodeUtility) to the node's regret for every action and returns nodeUtility;
\* regrets are updated at no node whose acting seat is not the target player.
C33_TargetBranchUpdatesRegrets ==
    [][/\ recursesOnClone
       /\ regretsOfBranch(RSum([i \in 1 .. Len(walk.frame.utilities) |->
                                 RMul(walk.frame.strategy[i], walk.frame.utilities[i])]))
       /\ regretsOfTargetOnly]_vars

\* a walk on an empty map has returned from the trained player's branch, both
\* actions tried, and has left a regret at its node
C33_Witness ==
    /\ walk.phase = "iteration"
    /\ walk.first.nodeMap = EmptyNodeMap
    /\ walk.player = 1
    /\ walk.branches = 1
    /\ walk.terminals = 2
    /\ \E infoSet \in DOMAIN walk.nodeMap :
          /\ infoSet[1] = 0
          /\ RLess(RZero, walk.nodeMap[infoSet].regretSum[1])
          /\ RLess(walk.nodeMap[infoSet].regretSum[2], RZero)

\* the walk is at a decision node of a seat other than the one it trains
atOpponent ==
    /\ walk.phase = "enter"
    /\ isDecisionNode(walk.s)
    /\ getCurrentPlayer(walk.s) # walk.player

\* the step at an opponent's node, given the strategy that getStrategy
\* returns there and the draw r: it applies the one action a whose share
\* [strategy[1] + ... + strategy[a-1], ... + strategy[a]) of [0, 1) holds r,
\* scales the reach probability of the seat by strategy[a] and enters mccfr
\* again, with no branch opened
opponentStep(strategy, r) ==
    atOpponent =>
        \E a \in 1 .. Len(strategy) :
            /\ ~RLess(r, RSum(SubSeq(strategy, 1, a - 1)))
            /\ RLess(r, RSum(SubSeq(strategy, 1, a)))
            /\ RLess(RZero, strategy[a])
            /\ walk'.s = applyAction(walk.s, getLegalActions(walk.s)[a])
            /\ walk'.reachProb = [walk.reachProb EXCEPT ![getCurrentPlayer(walk.s) + 1] =
                                      RMul(@, strategy[a])]
            /\ walk'.phase = "enter"
            /\ walk'.frame = walk.frame
            /\ walk'.branches = walk.branches
            /\ walk'.terminals = walk.terminals

\* C34: at a decision node of an opponent of the target player the walk
\* applies exactly one action, drawn with the probability that the node's
\* current strategy assigns to it (never one of probability zero), scales that
\* seat's reach probability by that weight and recurses once; so a walk
\* branches only at the target player's single decision and evaluates at most
\* two terminal states.
C34_OpponentSampledOnce ==
    /\ [][opponentStep(walk'.nodeMap[getInformationSet(walk.s, getCurrentPlayer(walk.s))].strategy_,
                       rngDraw(walk.rng))]_vars
    /\ [](walk.branches <= 1 /\ walk.terminals <= 2)
    /\ [](walk.frame.active => getCurrentPlayer(walk.frame.s) = walk.player)

\* a walk has sampled an opponent whose strategy was neither uniform nor pure
C34_Witness ==
    /\ walk.phase = "enter"
    /\ \E seat \in Seats \ {walk.player} :
          /\ RLess(RZero, walk.reachProb[seat + 1])
          /\ RLess(walk.reachProb[seat + 1], ROne)
          /\ walk.reachProb[seat + 1] # Rat(1, 2)

\* the index of the first largest entry of a strategy, counted from 1
firstLargest(strategy) ==
    CHOOSE a \in 1 .. Len(strategy) :
        /\ \A b \in 1 .. Len(strategy) : ~RLess(strategy[a], strategy[b])
        /\ \A b \in 1 .. (a - 1) : RLess(strategy[b], strategy[a])

\* a turn of the loop of the playout at a decision point: the information set
\* has a node, the action of its largest average-strategy probability is
\* applied, and nothing is drawn
playOutTakesBest(infoSet) ==
    walk.phase = "playout" /\ isDecisionNode(walk.s) =>
        /\ infoSet \in DOMAIN walk.nodeMap
        /\ walk'.s = applyAction(walk.s, getLegalActions(walk.s)[
                         firstLargest(getAverageStrategy(walk.nodeMap[infoSet]))])
        /\ walk'.rng = walk.rng

\* the playout leaves every node as it is
playOutKeepsNodes == walk.phase = "playout" => walk'.nodeMap = walk.nodeMap

\* the playout returns the payoffs of a terminal state
playOutEndsTerminal ==
    walk.phase = "done" =>
        /\ isTerminal(walk.s)
        /\ walk.exactUtilities = asUtilities(getReturns(walk.s))

\* C35: the per-iteration exact-utility playout is deterministic: from the
\* iteration's root it applies, at every decision point, the action with the
\* highest current average-strategy probability for that information set, it
\* modifies no node, and it ends in a terminal state whose payoffs it returns.
C35_PlayOutDeterministic ==
    /\ [][playOutTakesBest(getInformationSet(walk.s, getCurrentPlayer(walk.s)))]_vars
    /\ [][playOutKeepsNodes]_vars
    /\ []playOutEndsTerminal

\* a second run of the walk that has just returned: mccfr on a copy of the
\* same root, for the same seat, on the map and the generator that the walk
\* was entered with
secondRun(w) ==
    mccfr(rootCopy(w.root), w.player - 1, Filled(NUM_PLAYERS, ROne),
          w.entry.nodeMap, w.entry.rng)

\* the walk that has returned and a second run agree on the utility, the map
\* (and so on every regret) and the draws used
runsAgree(w, run) ==
    /\ w.mccfrUtilities[w.player] = run.utility
    /\ w.nodeMap = run.nodeMap
    /\ \A infoSet \in DOMAIN w.nodeMap :
          regretsIn(w.nodeMap, infoSet) = regretsIn(run.nodeMap, infoSet)
    /\ w.rng = run.rng

PRECISION == 16

\* the digits of r / d after the point, k of them, cut off
RECURSIVE fractionDigits(_, _, _)
fractionDigits(r, d, k) ==
    IF k = 0 THEN <<>>
    ELSE <<(10 * r) \div d>> \o fractionDigits((10 * r) % d, d, k - 1)

\* what is left of r / d after k digits
RECURSIVE fractionRest(_, _, _)
fractionRest(r, d, k) == IF k = 0 THEN r ELSE fractionRest((10 * r) % d, d, k - 1)

\* the digits with one added in the last place, and the carry out of them
RECURSIVE lastPlaceUp(_)
lastPlaceUp(digits) ==
    IF digits = <<>> THEN [digits |-> <<>>, carry |-> 1]
    ELSE IF digits[Len(digits)] < 9
        THEN [digits |-> [digits EXCEPT ![Len(digits)] = @ + 1], carry |-> 0]
    ELSE [digits |-> Append(lastPlaceUp(SubSeq(digits, 1, Len(digits) - 1)).digits, 0),
          carry |-> lastPlaceUp(SubSeq(digits, 1, Len(digits) - 1)).carry]

\* "file << std::fixed << std::setprecision(16) << p" for p >= 0: the whole
\* part and PRECISION digits, rounded to the nearest in the last place
fixedText(p) ==
    IF 2 * fractionRest(p[1] % p[2], p[2], PRECISION) >= p[2]
    THEN [whole |-> p[1] \div p[2]
                      + lastPlaceUp(fractionDigits(p[1] % p[2], p[2], PRECISION)).carry,
          digits |-> lastPlaceUp(fractionDigits(p[1] % p[2], p[2], PRECISION)).digits]
    ELSE [whole |-> p[1] \div p[2],
          digits |-> fractionDigits(p[1] % p[2], p[2], PRECISION)]

\* the place of the last digit that is not 0
lastPlace(digits) == Max({0} \cup {i \in 1 .. Len(digits) : digits[i] # 0})

\* the number d1 d2 ... dk
RECURSIVE digitsNumber(_, _)
digitsNumber(digits, k) ==
    IF k = 0 THEN 0 ELSE 10 * digitsNumber(digits, k - 1) + digits[k]

RECURSIVE powerOfTen(_)
powerOfTen(k) == IF k = 0 THEN 1 ELSE 10 * powerOfTen(k - 1)

\* the number that 0.d1 d2 ... stands for (the digits after the last that
\* is not 0 add nothing)
digitsValue(digits) ==
    Rat(digitsNumber(digits, lastPlace(digits)), powerOfTen(lastPlace(digits)))

\* "iss >> prob" on a text written by fixedText
numberRead(text) == Number(RAdd(Rat(text.whole, 1), digitsValue(text.digits)))

\* the lines written for one information set
nodeLines(infoSet, n, includeVisitCounts) ==
    <<InfoSetLine(infoSet,
                  IF includeVisitCounts THEN Number(Rat(n.visitCount, 1)) ELSE NoVisits),
      StrategyLine([i \in 1 .. Len(getAverageStrategy(n)) |->
                        numberRead(fixedText(getAverageStrategy(n)[i]))]),
      EmptyLine>>

\* the loop that writes the strategies, in the order of sortedNodes
RECURSIVE strategyLines(_, _, _)
strategyLines(nodeMap, sortedNodes, includeVisitCounts) ==
    IF sortedNodes = <<>> THEN <<>>
    ELSE nodeLines(Head(sortedNodes), nodeMap[Head(sortedNodes)], includeVisitCounts)
             \o strategyLines(nodeMap, Tail(sortedNodes), includeVisitCounts)

\* the orders std::sort may leave the information sets in: visit counts
\* descending, equal counts either way
sortedOrders(nodeMap) ==
    {order \in [1 .. Cardinality(DOMAIN nodeMap) -> DOMAIN nodeMap] :
        /\ \A i, j \in DOMAIN order : i # j => order[i] # order[j]
        /\ \A i, j \in DOMAIN order :
              i < j => nodeMap[order[i]].visitCount >= nodeMap[order[j]].visitCount}

\* Trainer::saveStrategies(filename, includeVisitCounts): the file it leaves
\* when the file could be opened; the header is five comment lines and an
\* empty one
saveStrategies(tr, sortedNodes, includeVisitCounts) ==
    [exists |-> TRUE,
     lines |-> <<CommentLine, CommentLine, CommentLine, CommentLine, CommentLine, EmptyLine>>
                   \o strategyLines(tr.nodeMap, sortedNodes, includeVisitCounts)]

\* Trainer::getStrategy(infoSet)
trainerGetStrategy(tr, infoSet) ==
    IF infoSet \in DOMAIN tr.nodeMap THEN getAverageStrategy(tr.nodeMap[infoSet])
    ELSE <<>>

\* nodes as training leaves them: never visited; visited once; visited twice
\* with a regret for the first action in between; visited once with a regret
\* for the second action
SavedNodes ==
    {Node(2),
     getStrategy(Node(2), ROne),
     getStrategy(updateRegret(getStrategy(Node(2), ROne), 0, Rat(2, 1)), ROne),
     getStrategy(updateRegret(Node(2), 1, ROne), ROne)}

\* the trainers that save: one or two information sets in the map
SavingTrainers ==
    {[Trainer(0) EXCEPT !.nodeMap = putNode(EmptyNodeMap, "AKs", n)] : n \in SavedNodes}
        \cup {[Trainer(0) EXCEPT !.nodeMap = putNode(putNode(EmptyNodeMap, "AKs", n), "QQ", m)] :
                  <<n, m>> \in SavedNodes \X SavedNodes}

InitSave ==
    /\ game = DefaultGame
    /\ state = InitialState(DefaultGame, 1)
    /\ thrown = NoException
    /\ returned = <<>>
    /\ trainer \in SavingTrainers
    /\ node = Node(2)
    /\ calls = 0
    /\ deck = Deck(1)
    /\ drawn = <<>>
    /\ InitObjects(DefaultGame, 1)
    /\ fiveCardHand = NoHand
    /\ sevenCards = NoCards
    /\ visualization = NoVisualization
    /\ strategyFile = NoFile
    /\ walk = NoWalk

\* trainer.saveStrategies(filename, includeVisitCounts); a file that cannot be
\* opened is left as it was
SaveStrategies(opened, includeVisitCounts) ==
    /\ calls = 0
    /\ calls' = 1
    /\ \E sortedNodes \in sortedOrders(trainer.nodeMap) :
          strategyFile' = IF opened
                          THEN saveStrategies(trainer, sortedNodes, includeVisitCounts)
                          ELSE strategyFile
    /\ UNCHANGED <<game, state, thrown, returned, trainer, node, deck, drawn, original,
                   clone, decks, fiveCardHand, sevenCards, visualization, walk>>

\* trainer.loadStrategies(filename) of the file saved
LoadSaved ==
    /\ calls = 1
    /\ calls' = 2
    /\ \E r \in {loadStrategies(trainer, strategyFile)} :
          /\ trainer' = [trainer EXCEPT !.nodeMap = r.nodeMap]
          /\ returned' = r.returned
          /\ thrown' = r.thrown
    /\ UNCHANGED <<game, state, node, aside>>

\* trainer.getStrategy(infoSet)
GetStrategy(infoSet) ==
    /\ calls = 2
    /\ calls' = 3
    /\ returned' = trainerGetStrategy(trainer, infoSet)
    /\ UNCHANGED <<game, state, thrown, trainer, node, aside>>

NextSave ==
    \/ \E opened \in BOOLEAN, includeVisitCounts \in BOOLEAN :
          SaveStrategies(opened, includeVisitCounts)
    \/ LoadSaved
    \/ \E infoSet \in {"AKs", "QQ", "72o"} : GetStrategy(infoSet)

SpecSave == InitSave /\ [][NextSave]_vars

\* the strategies in the file: for each InfoSet line the numbers of the
\* Strategy line under it
savedIn(file) ==
    {<<file.lines[i].infoSet, parsedProbabilities(file.lines[i + 1].words)>> :
        i \in {j \in 1 .. (Len(file.lines) - 1) : file.lines[j].kind = "InfoSet"}}

\* the file written holds, for every information set of the map, the
\* average strategy learned
savedAsLearned ==
    calls = 1 /\ strategyFile.exists =>
        savedIn(strategyFile) = {<<infoSet, trainerGetStrategy(trainer, infoSet)>> :
                                    infoSet \in DOMAIN trainer.nodeMap}

\* after a successful load of the file, every information set in it gets the
\* strategy that the file holds for it
loadedAsSaved ==
    calls = 2 /\ returned = TRUE =>
        \A saved \in savedIn(strategyFile) :
            trainerGetStrategy(trainer, saved[1]) = saved[2]

\* C37: after saveStrategies followed by a successful loadStrategies of the
\* same file, Trainer::getStrategy(infoSet) returns, for every saved
\* information set, the strategy that was saved: the node state rebuilt from
\* strategy x visits reproduces the learned average strategy.
C37_LoadReproducesSaved == savedAsLearned /\ loadedAsSaved

\* ------------------------------------------------------------------------
\* Scores compared
\* ------------------------------------------------------------------------
\* the most scores compared with one another
MaxCompared == 3

\* the hands whose scores are compared: hands of every category, among them
\* hands a kicker apart, hands of the same ranks in other suits, and the
\* highest and the lowest straight
ComparedHands ==
    {handOf(<<9, 8, 7, 6, 5>>, <<"s", "s", "s", "s", "s">>),
     handOf(<<14, 2, 3, 4, 5>>, <<"h", "h", "h", "h", "h">>),
     handOf(<<14, 14, 14, 14, 13>>, <<"s", "h", "d", "c", "s">>),
     handOf(<<13, 13, 13, 13, 14>>, <<"s", "h", "d", "c", "s">>),
     handOf(<<14, 14, 14, 13, 13>>, <<"s", "h", "d", "c", "s">>),
     handOf(<<13, 13, 13, 14, 14>>, <<"s", "h", "d", "c", "s">>),
     handOf(<<14, 12, 9, 6, 3>>, <<"d", "d", "d", "d", "d">>),
     handOf(<<14, 12, 9, 6, 2>>, <<"c", "c", "c", "c", "c">>),
     handOf(<<10, 11, 12, 13, 14>>, <<"s", "h", "d", "c", "s">>),
     handOf(<<14, 2, 3, 4, 5>>, <<"s", "h", "d", "c", "s">>),
     handOf(<<14, 14, 14, 13, 12>>, <<"s", "h", "d", "c", "s">>),
     handOf(<<14, 14, 14, 13, 11>>, <<"s", "h", "d", "c", "s">>),
     handOf(<<14, 14, 13, 13, 12>>, <<"s", "h", "d", "c", "s">>),
     handOf(<<14, 14, 12, 12, 13>>, <<"s", "h", "d", "c", "s">>),
     handOf(<<14, 14, 13, 12, 11>>, <<"s", "h", "d", "c", "s">>),
     handOf(<<14, 14, 13, 12, 10>>, <<"s", "h", "d", "c", "s">>),
     handOf(<<14, 13, 12, 11, 9>>, <<"s", "h", "d", "c", "s">>),
     handOf(<<14, 13, 12, 11, 9>>, <<"h", "d", "c", "s", "h">>),
     handOf(<<13, 12, 11, 9, 7>>, <<"s", "h", "d", "c", "s">>)}

InitCompare ==
    /\ game = DefaultGame
    /\ state = InitialState(DefaultGame, 1)
    /\ thrown = NoException
    /\ returned = <<>>
    /\ trainer = Trainer(0)
    /\ node = Node(2)
    /\ calls = 0
    /\ deck = Deck(1)
    /\ drawn = <<>>
    /\ InitObjects(DefaultGame, 1)
    /\ fiveCardHand = NoHand
    /\ InitOthers

\* score = evaluator.evaluateFiveCardHand(hand), kept with the scores before
EvaluateCompared(hand) ==
    /\ calls < MaxCompared
    /\ calls' = calls + 1
    /\ returned' = Append(returned, evaluateFiveCardHand(hand))
    /\ UNCHANGED <<game, state, thrown, trainer, node, aside>>

NextCompare == \E hand \in ComparedHands : EvaluateCompared(hand)

SpecCompare == InitCompare /\ [][NextCompare]_vars

\* score1 comes after score2 in lexicographic order
lexGreater(score1, score2) ==
    \E k \in 1 .. Min({Len(score1), Len(score2)}) :
        /\ score1[k] > score2[k]
        /\ \A j \in 1 .. (k - 1) : score1[j] = score2[j]

\* C38: on scores produced by the evaluator compareHands is a total preorder
\* that agrees with lexicographic order: compareHands(a, b) > 0 exactly when
\* compareHands(b, a) < 0, it is transitive, and it returns 0 exactly when the
\* two scores are equal element by element (hands of the same ranks in
\* different suits tie).
C38_CompareHandsTotalPreorder ==
    /\ \A i, j \in 1 .. Len(returned) :
          /\ compareHands(returned[i], returned[j]) \in {-1, 0, 1}
          /\ compareHands(returned[i], returned[j]) > 0
                <=> compareHands(returned[j], returned[i]) < 0
          /\ compareHands(returned[i], returned[j]) > 0
                <=> lexGreater(returned[i], returned[j])
          /\ compareHands(returned[i], returned[j]) = 0 <=> returned[i] = returned[j]
    /\ \A i, j, k \in 1 .. Len(returned) :
          compareHands(returned[i], returned[j]) >= 0
              /\ compareHands(returned[j], returned[k]) >= 0
                  => compareHands(returned[i], returned[k]) >= 0

\* three scores of one category in a row: two hands of the same ranks in
\* different suits that tie, and a hand that both beat by the last kicker
C38_Witness ==
    /\ Len(returned) = 3
    /\ returned[1][1] = HIGH_CARD
    /\ returned[1] = returned[2]
    /\ compareHands(returned[1], returned[2]) = 0
    /\ returned[3][1] = HIGH_CARD
    /\ compareHands(returned[2], returned[3]) > 0
    /\ compareHands(returned[3], returned[1]) < 0

\* the hand of testSevenCardEvaluation has been evaluated
testHandEvaluated ==
    /\ sevenCards.holeCards = <<Card("A", "s"), Card("A", "h")>>
    /\ sevenCards.communityCards
          = <<Card("A", "d"), Card("K", "c"), Card("Q", "s"), Card("J", "h"), Card("10", "c")>>
    /\ returned # <<>>

rankText(rank) == IF rank = "10" THEN <<"1", "0">> ELSE <<rank>>

\* ss.str(): the characters of the two ranks and of the indicator, one after
\* the other with nothing between them
holeCardsText(parts) ==
    rankText(parts[1]) \o rankText(parts[2]) \o (IF parts[3] = "" THEN <<>> ELSE <<parts[3]>>)

\* card_utils::areSuited
areSuited(card1, card2) == card1.suit = card2.suit

\* card_utils::getAbstractedHoleCards, kept as the parts it prints
getAbstractedHoleCards(card1, card2) ==
    LET swap == getRankValue(card1) < getRankValue(card2)
        highCard == IF swap THEN card2 ELSE card1
        lowCard == IF swap THEN card1 ELSE card2
    IN IF getRankValue(highCard) = getRankValue(lowCard)
       THEN <<highCard.rank, lowCard.rank, "">>
       ELSE <<highCard.rank, lowCard.rank, IF areSuited(highCard, lowCard) THEN "s" ELSE "o">>

\* the cards of the standard deck
DeckCards == {createStandardDeck[i] : i \in 1 .. Len(createStandardDeck)}

\* the two hole cards of a seat: any two different cards of the deck, in
\* either order
InitAbstract ==
    /\ game = DefaultGame
    /\ state = InitialState(DefaultGame, 1)
    /\ thrown = NoException
    /\ returned = <<>>
    /\ trainer = Trainer(0)
    /\ node = Node(2)
    /\ calls = 0
    /\ deck = Deck(1)
    /\ \E card1 \in DeckCards : \E card2 \in DeckCards \ {card1} : drawn = <<card1, card2>>
    /\ InitObjects(DefaultGame, 1)
    /\ fiveCardHand = NoHand
    /\ InitOthers

\* both abstractions called on the two cards, the card at place first of the
\* two passed first
AbstractHoleCards(first) ==
    /\ returned' = [card1 |-> drawn[first],
                    card2 |-> drawn[3 - first],
                    utils |-> holeCardsText(abstractHoleCards(drawn[first], drawn[3 - first])),
                    card_utils |-> holeCardsText(getAbstractedHoleCards(drawn[first], drawn[3 - first]))]
    /\ UNCHANGED <<game, state, thrown, trainer, node, calls, aside>>

NextAbstract == \E first \in 1 .. 2 : AbstractHoleCards(first)

SpecAbstract == InitAbstract /\ [][NextAbstract]_vars

\* the ordered pairs of different cards
DistinctPairs == {pair \in DeckCards \X DeckCards : pair[1] # pair[2]}

\* the classes abstractHoleCards gives over all pairs of different cards
HoleCardClasses ==
    {holeCardsText(abstractHoleCards(pair[1], pair[2])) : pair \in DistinctPairs}

\* the classes that end in the indicator
classesEnding(indicator) ==
    {class \in HoleCardClasses : class[Len(class)] = indicator}

\* the call has been made on the two cards
abstracted == returned # <<>>

\* the text of the higher rank of the two cards, then of the lower one
higherFirst(card1, card2) ==
    IF getRankValue(card1) >= getRankValue(card2)
    THEN rankText(card1.rank) \o rankText(card2.rank)
    ELSE rankText(card2.rank) \o rankText(card1.rank)

=============================================================================
